---------------------------- MODULE Spec2Model ----------------------------
(***************************************************************************)
(* State-machine model of the odds-maximizer betting bot:                  *)
(*   - core/positionManager.js  (positions store, per-position operation   *)
(*     queue, market-data / fill / edit / close operations, batch cancel)  *)
(*   - core/orderManager.js     (postMakerOrder / cancelOrders with retry) *)
(*   - core/marketMonitor.js    (fill detection, recently cancelled map)   *)
(*   - utils/oddsUtils.js       (ladder check and rounding)                *)
(*   - cli/index.js             (exitApplication)                          *)
(*                                                                         *)
(* Numbers.  Implied odds are JavaScript numbers in the code; here they    *)
(* are exact fixed-point integers with six decimals (OddsScale = 100%).    *)
(* The venue's wire odds have 20 decimals in the code; here they have      *)
(* two more decimals than the implied odds (OddsWirePerUnit), which keeps  *)
(* parseUnits a real conversion inside 32-bit integers.  Stakes are whole  *)
(* USDC on a position and USDC * 10^6 on the wire.                         *)
(***************************************************************************)
EXTENDS Integers, Sequences, FiniteSets, TLC

(***************************************************************************)
(* Program constants                                                       *)
(***************************************************************************)
NULL == -1                      \* JavaScript null in a numeric field or an order hash

LADDER_STEP_SIZE == 25          \* ODDS.LADDER_STEP_SIZE (0.25%)
MAX_RETRY_COUNT == 3            \* ORDER.MAX_RETRY_COUNT
\* FILL_COMPLETION_THRESHOLD = 0.995, as a per-mille of maxFillAmount
FILL_COMPLETION_THRESHOLD == 995
\* POSITION.FILL_COMPLETION_THRESHOLD = 99 (percent); no code reads it
POSITION_FILL_COMPLETION_THRESHOLD == 99

OddsScale == 1000 * 1000        \* implied odds 1.0 (six decimals kept)
OddsWirePerUnit == 10 * 10      \* wire units per implied unit (10^14 in the code)
ODDS_UNIT == OddsScale * OddsWirePerUnit        \* wire odds of 100% (10^20)
\* ODDS.STEP_SIZE_DIVISOR: 10^16 of the 10^20 wire scale, four decimals below
\* the wire unit
STEP_SIZE_DIVISOR == ODDS_UNIT \div 10000
STAKE_UNIT == 1000 * 1000       \* TOKENS.USDC.DIVISOR = 10^6

(***************************************************************************)
(* utils/oddsUtils.js, utils/orderUtils.js and the arithmetic of           *)
(* positionManager.js                                                      *)
(***************************************************************************)
\* ethers.parseUnits(impliedOdds.toString(), 20)
parseOdds(implied) == implied * OddsWirePerUnit

\* ethers.parseUnits(betSizeUSDC.toString(), 6)
parseStake(usdc) == usdc * STAKE_UNIT

\* Number(ethers.formatUnits(amount, 6))
toNominalAmount(wire) == wire \div STAKE_UNIT

checkOddsLadderValid(oddsWire) ==
    oddsWire % (STEP_SIZE_DIVISOR * LADDER_STEP_SIZE) = 0

\* The odds as they are given, on the ladder or not
oddsAsGiven(implied) == implied

\* Math.round(impliedOdds * 100 / 0.25) * 0.25 / 100; Math.round rounds a
\* half up
roundToNearestStep(implied) ==
    LET step == (OddsScale * LADDER_STEP_SIZE) \div 10000
    IN  ((2 * implied + step) \div (2 * step)) * step

\* impliedOdds * (1 - premium / 100); null * x is 0 in JavaScript
applyPremium(implied, premium) ==
    IF implied = NULL THEN 0 ELSE (implied * (100 - premium)) \div 100

\* checkRiskThresholds(position)
checkRiskThresholds(o) ==
    \/ o.currentVig # NULL /\ o.currentVig > o.maxVig
    \/ o.outcome1 # NULL /\ o.outcome1 < o.minLiquidity
    \/ o.outcome2 # NULL /\ o.outcome2 < o.minLiquidity

\* position.fillPercentage >= FILL_COMPLETION_THRESHOLD * 100, with
\* fillPercentage = fillAmount / maxFillAmount * 100
IsComplete(fillAmount, maxFillAmount) ==
    fillAmount * 1000 >= FILL_COMPLETION_THRESHOLD * maxFillAmount

(***************************************************************************)
(* Bounds of the model and the inputs the environment draws from           *)
(***************************************************************************)
MaxQueue == 3       \* operations in one position's queue, the running one included
MaxOrders == 3      \* orders the venue accepts in one run
MaxEdits == 1       \* operator edits in one run
MaxDeliveries == 3  \* order book updates the monitor's callback handles in one run
MaxPositions == 2   \* positions whose queues run side by side
MaxOps == 3         \* operations enqueued for one position
MaxCalls == 1       \* calls of postMakerOrder
MaxOddsInput == 40  \* implied odds given to postMakerOrder, in twentieths of a ladder step

QueuePositions == 1..MaxPositions

\* Implied odds postMakerOrder may be called with: on the ladder, half way
\* between two steps, and anywhere else between
OddsInputs == { (k * OddsScale) \div 8000 : k \in 0..MaxOddsInput }

\* Settings the operator gives when the position is created
\* (cli/createPosition.js): maxFillAmount in USDC, premium and maxVig in
\* percent, minLiquidity in USDC.
InitialSettings ==
    [maxFillAmount |-> 200, premium |-> 10, maxVig |-> 10, minLiquidity |-> 10]

\* Settings an operator edit may carry (cli/viewPositions.js prompts for
\* every field, the current value being the default).
EditInputs ==
    { [maxFillAmount |-> 100, premium |-> 20, maxVig |-> 15, minLiquidity |-> 10] }

\* Market data the monitor may deliver: best taker odds of the position's
\* outcome (implied), vig in percent, liquidity of the two outcomes in USDC.
MarketDataInputs ==
    { [bestTakerOdds |-> 400000, vig |-> 2,  outcome1 |-> 1000, outcome2 |-> 1000],
      [bestTakerOdds |-> 350000, vig |-> 2,  outcome1 |-> 1000, outcome2 |-> 1000],
      [bestTakerOdds |-> 400000, vig |-> 12, outcome1 |-> 1000, outcome2 |-> 5] }

\* Amounts (USDC) a taker may take from a live order in one fill, besides
\* all that remains of it: of the initial 200 they are 99% and 99.5%.
FillAmounts == {198, 199}

NoMarketData == [bestTakerOdds |-> NULL, vig |-> NULL, outcome1 |-> NULL, outcome2 |-> NULL]
NoSettings == [maxFillAmount |-> 0, premium |-> 0, maxVig |-> 0, minLiquidity |-> 0]

(***************************************************************************)
(* State                                                                   *)
(***************************************************************************)
VARIABLES
    objs,           \* the position objects ever created for the position: the
                    \* one createNewPosition built, then one per updatePosition
                    \* ({...position, ...updatedSettings})
    positions,      \* positions Map: index into objs of the stored object, NULL when deleted
    riskFlag,       \* position.operations.isRiskThresholdBreached; the operations
                    \* object is shared by every copy of the position
    queue,          \* the array operationQueues held for the position
    queueRegistered,\* operationQueues.has(positionId)
    run,            \* the operation at the head of the queue: where it is suspended
    lastOrderUpdateRecent, \* Date.now() - lastOrderUpdateTime.get(id) < MIN_ORDER_UPDATE_INTERVAL
    recentlyCancelledOrders, \* marketMonitor.js: keys of the recently cancelled map
    venue,          \* the orders the venue accepted, by order hash 1, 2, ...
    subscribed,     \* the order book callback is registered with the transport
    cli,            \* where the operator's CLI flow, and exitApplication, stand
    shutdown,       \* cancelAllPositionOrders: hashes collected and attempts made
    editsDone,      \* operator edits so far
    delivered,      \* order book updates handled so far
    locallyCancelled, \* history: orders the position cancelled less than
                    \* RECENT_ORDER_TRACKING_TIME ago
    orderCallRecent,\* history: a cancelOrder or postMakerOrder call of the position
                    \* returned less than MIN_ORDER_UPDATE_INTERVAL ago
    \* enqueueOperation on its own, with several positions
    operationQueues,\* operationQueues Map: position -> array of queued operations
    enqueued,       \* position -> number of operations enqueued so far
    executing,      \* position -> the operations whose operation() has not returned
    timers,         \* position -> pending setTimeout(..., 0) callbacks
    startLog,       \* history: the operations in the order they were started
    rejected,       \* history: the operation() that settled last threw; NULL, or
                    \* its position
    \* postMakerOrder on its own, called with any odds
    gateway,        \* postMakerOrder: where the call stands, orderParams, retryCount
    transmitted,    \* history: the orders handed to postOrder, as it encodes them
    \* marketMonitor.js and api/websocket.js on their own, with several positions
    booted,         \* index.js init() has run
    realtime,       \* websocket.js realtime: "null", or the state of its connection
    subscriptions,  \* websocket.js subscriptions.get(marketHash): "none", "channel", "polling"
    intervals,      \* websocket.js: polling intervals set and not cleared
    orderbooks,     \* marketMonitor.js orderbooks.get(marketHash): NoOrderbook, or
                    \* the positions and the orders of the mirror
    book,           \* the orders open at the venue for the market
    stage,          \* position -> how far its creation or its close has come
    lastUpdate,     \* history: the last snapshot or batch the monitor handled
    \* marketMonitor.js on its own: the orders of one market's mirror
    mirror,         \* orderbook.orders: outcome -> the array of the orders kept
    metrics,        \* orderbook.metrics
    updateTimes,    \* history: order -> updateTime of the last update handled for it
    feed,           \* history: what the monitor handled last, and how much so far
    \* handleOrderbookUpdate call by call: the calls that have not returned
    handlers,       \* the calls of handleOrderbookUpdate in the order of their
                    \* messages: the batch, the update the loop is at, orderbookChanged,
                    \* and the await the call is suspended at
    applyLog,       \* history: for each update applied to the mirror, its batch
    events          \* history: the batches whose market data went to updateMarketData

positionVars == << objs, positions, riskFlag, queue, queueRegistered, run,
                   lastOrderUpdateRecent, recentlyCancelledOrders, venue, subscribed,
                   cli, shutdown, editsDone, delivered, locallyCancelled,
                   orderCallRecent >>
queueVars == << operationQueues, enqueued, executing, timers, startLog, rejected >>
gatewayVars == << gateway, transmitted >>
monitorVars == << booted, realtime, subscriptions, intervals, orderbooks, book, stage,
                 lastUpdate >>
batchVars == << handlers, applyLog, events >>
mirrorVars == << mirror, metrics, updateTimes, feed, batchVars >>

vars == << positionVars, queueVars, gatewayVars, monitorVars, mirrorVars >>

\* createNewPosition: the new position object
NewPosition(settings) ==
    [ status |-> "INITIALIZING", orderStatus |-> "NONE", activeOrderHash |-> NULL,
      fillAmount |-> 0, bestTakerOdds |-> NULL, currentVig |-> NULL,
      outcome1 |-> NULL, outcome2 |-> NULL, lastOrderOdds |-> NULL,
      maxFillAmount |-> settings.maxFillAmount, premium |-> settings.premium,
      maxVig |-> settings.maxVig, minLiquidity |-> settings.minLiquidity ]

NoOrderbook == [positions |-> << >>, orders |-> {}, present |-> FALSE]
\* The orders the feed of the market may report: orders 0 and 1 of another
\* maker on outcome one, order 2 of another maker on outcome two, and
\* order 3, the order of the bot's first position
FeedOrders == 0..3
NoMetrics == [bestTakerOdds |-> << NULL, NULL >>, liquidity |-> << 0, 0 >>, vig |-> NULL]
NoFeed == [kind |-> "none", fresh |-> FALSE, own |-> FALSE, stale |-> FALSE, handled |-> 0]
NoUpdate == [kind |-> "none", input |-> {}, changed |-> FALSE, attached |-> {},
             notified |-> {}, ownFilled |-> {}, fills |-> {}]
Idle == [pc |-> "idle", retry |-> 0, odds |-> 0, stake |-> 0, tgt |-> 0, hash |-> NULL]
NoShutdown == [hashes |-> {}, retry |-> 0]
GatewayIdle == [pc |-> "idle", asked |-> 0, betSizeUSDC |-> 0, impliedOdds |-> 0,
                retryCount |-> 0, calls |-> 0, lastError |-> "none"]

\* The state createNewPosition leaves: the position stored, its queue
\* registered and empty, nothing posted, the CLI about to initialise the
\* market monitoring.
InitOf(settings) ==
    /\ objs = << NewPosition(settings) >>
    /\ positions = 1
    /\ riskFlag = FALSE
    /\ queue = << >>
    /\ queueRegistered = TRUE
    /\ run = Idle
    /\ lastOrderUpdateRecent = FALSE
    /\ recentlyCancelledOrders = {}
    /\ venue = << >>
    /\ subscribed = FALSE
    /\ cli = "create"
    /\ shutdown = NoShutdown
    /\ editsDone = 0
    /\ delivered = 0
    /\ locallyCancelled = {}
    /\ orderCallRecent = FALSE
    /\ operationQueues = [p \in QueuePositions |-> << >>]
    /\ enqueued = [p \in QueuePositions |-> 0]
    /\ executing = [p \in QueuePositions |-> {}]
    /\ timers = [p \in QueuePositions |-> 0]
    /\ startLog = [p \in QueuePositions |-> << >>]
    /\ rejected = NULL
    /\ gateway = GatewayIdle
    /\ transmitted = << >>
    /\ booted = FALSE
    /\ realtime = "null"
    /\ subscriptions = "none"
    /\ intervals = 0
    /\ orderbooks = NoOrderbook
    /\ book = {}
    /\ stage = [p \in QueuePositions |-> "none"]
    /\ lastUpdate = NoUpdate
    /\ mirror = << << >>, << >> >>
    /\ metrics = NoMetrics
    /\ updateTimes = [h \in FeedOrders |-> 0]
    /\ feed = NoFeed
    /\ handlers = << >>
    /\ applyLog = << >>
    /\ events = {}

Init == InitOf(InitialSettings)

(***************************************************************************)
(* The venue                                                               *)
(***************************************************************************)
Orders == DOMAIN venue
LiveOrders == { h \in Orders : venue[h].live }

\* The venue's answer to a cancel request that reached it
cancelledCount(hashes) == Cardinality({ h \in hashes : h \in LiveOrders })
VenueAfterCancel(hashes) ==
    [ h \in Orders |-> IF h \in hashes THEN [venue[h] EXCEPT !.live = FALSE] ELSE venue[h] ]

\* api/orderPoster.js postOrder: what the venue stores of an accepted order
VenueAfterPost(betSizeUSDC, impliedOdds) ==
    Append(venue, [ totalBetSize |-> parseStake(betSizeUSDC),
                    percentageOdds |-> parseOdds(impliedOdds),
                    fillAmount |-> 0, live |-> TRUE ])


\* Orders the venue takes: a positive stake at odds strictly between 0% and
\* 100% (anything else is answered with an error).
VenueAccepts(betSizeUSDC, impliedOdds) ==
    /\ betSizeUSDC > 0
    /\ impliedOdds > 0
    /\ impliedOdds < OddsScale

\* postMakerOrder, before its retry loop: odds off the ladder are rounded
\* onto it (orderParams.impliedOdds)
postMakerOrderOdds(impliedOdds) ==
    IF checkOddsLadderValid(parseOdds(impliedOdds))
    THEN impliedOdds
    ELSE roundToNearestStep(impliedOdds)

(***************************************************************************)
(* enqueueOperation                                                        *)
(***************************************************************************)
\* updateMarketData, updateFillStatus, postInitialOrder, updatePosition and
\* closePosition read positions.get(positionId) before they enqueue: the
\* operation works on that object.
Op(kind, md, fill, edit) ==
    [kind |-> kind, obj |-> positions, md |-> md, fill |-> fill, edit |-> edit]

\* queue.push(...); if (queue.length === 1) queue[0]()
\* An operation started here runs to its first await before anything else
\* does: pc "start" is left by the Start actions alone.
Enqueue(op) ==
    /\ queueRegistered
    /\ Len(queue) < MaxQueue
    /\ queue' = Append(queue, op)
    /\ run' = IF Len(queue) + 1 = 1 THEN [Idle EXCEPT !.pc = "start"] ELSE run

\* Nothing interleaves with the synchronous start of an operation, and
\* nothing runs once the process has exited.
Schedulable == run.pc # "start" /\ cli # "exited"

\* The operator answers a prompt of the menu (cli/index.js, inquirer): the
\* 0 ms timer of a finished operation has fired long before.
OperatorActs == Schedulable /\ cli = "idle" /\ run.pc # "timer"

(***************************************************************************)
(* The pieces of an operation between two awaits.  Each yields the         *)
(* object as it leaves it, the await it stops at ("end": the operation     *)
(* returns), the order parameters it computed, and the order hash it       *)
(* handed to trackCancelledOrder.                                          *)
(***************************************************************************)
Res(o, pc) == [obj |-> o, pc |-> pc, odds |-> 0, stake |-> 0, track |-> NULL, hash |-> NULL]

\* updateOrderForPosition from "Skip if risk thresholds are breached" to the
\* post: the odds and the stake are computed before the 500 ms delay.
preparePost(o, breached) ==
    IF breached THEN Res(o, "end")
    ELSE LET roundedOdds == roundToNearestStep(applyPremium(o.bestTakerOdds, o.premium))
             remainingToFill == o.maxFillAmount - o.fillAmount
         IN  IF remainingToFill <= 0
             THEN Res([o EXCEPT !.status = "COMPLETED"], "end")
             ELSE [obj |-> o, pc |-> "u_post", odds |-> roundedOdds,
                   stake |-> remainingToFill, track |-> NULL, hash |-> NULL]

\* updateOrderForPosition up to its first await
updateOrderForPosition(o, breached) ==
    IF o.activeOrderHash # NULL
    THEN [obj |-> o, pc |-> "u_cancel", odds |-> 0, stake |-> 0,
          track |-> o.activeOrderHash, hash |-> o.activeOrderHash]
    ELSE preparePost(o, breached)

\* handleRiskThresholdBreach up to its first await
handleRiskThresholdBreach(o) ==
    IF o.activeOrderHash # NULL
    THEN [obj |-> o, pc |-> "b_cancel", odds |-> 0, stake |-> 0,
          track |-> o.activeOrderHash, hash |-> o.activeOrderHash]
    ELSE Res([o EXCEPT !.status = "RISK_PAUSED"], "end")

\* handleRiskThresholdResolution up to its first await
handleRiskThresholdResolution(o, breached) ==
    IF o.status = "RISK_PAUSED"
    THEN updateOrderForPosition([o EXCEPT !.status = "ACTIVE"], breached)
    ELSE Res(o, "end")

\* The CLI flow awaiting the operation that ends goes on: createPosition
\* after the first market data and after postInitialOrder (a throw is
\* caught there), viewPositions after an edit or a close.
CliAfter(kind) ==
    IF cli = "create_md" /\ kind = "md" THEN "create_sub"
    ELSE IF cli = "create_initial" /\ kind = "initial" THEN "idle"
    ELSE IF cli = "edit_wait" /\ kind = "edit" THEN "idle"
    ELSE IF cli = "close_wait" /\ kind = "close" THEN "idle"
    ELSE cli

\* The operation at the head of the queue goes on to its next await, or
\* ends: the finally of enqueueOperation arms setTimeout(..., 0).
ContinueOn(base, k, r) ==
    /\ objs' = [base EXCEPT ![k] = r.obj]
    /\ recentlyCancelledOrders' =
           IF r.track # NULL THEN recentlyCancelledOrders \cup {r.track}
           ELSE recentlyCancelledOrders
    /\ run' = IF r.pc = "end" THEN [Idle EXCEPT !.pc = "timer"]
              ELSE [pc |-> r.pc, retry |-> 0, odds |-> r.odds, stake |-> r.stake,
                    tgt |-> k, hash |-> r.hash]
    /\ cli' = IF r.pc = "end" THEN CliAfter(Head(queue).kind) ELSE cli

Continue(k, r) == ContinueOn(objs, k, r)

\* The awaits of an operation at cancelOrder or postMakerOrder
OrderCalls == {"u_cancel", "u_post", "i_post", "b_cancel", "f_cancel", "c_cancel"}

\* History: a call of cancelOrder or postMakerOrder returns, or throws
\* after its last attempt, when the operation leaves the await
Pace ==
    orderCallRecent' = (orderCallRecent \/ (run.pc \in OrderCalls /\ run'.pc # run.pc))

\* One more failed attempt of a gateway call: the retry loop goes round
Retry == run' = [run EXCEPT !.retry = run.retry + 1]
LastAttempt == run.retry + 1 >= MAX_RETRY_COUNT


(***************************************************************************)
(* Operations of positionManager.js, from the start to the first await     *)
(***************************************************************************)
rest == << queue, queueRegistered, venue, subscribed, shutdown, editsDone, delivered >>

\* updateMarketData's operation
StartMarketData ==
    /\ run.pc = "start" /\ Head(queue).kind = "md"
    /\ LET k == Head(queue).obj
           m == Head(queue).md
           o == [objs[k] EXCEPT !.bestTakerOdds = m.bestTakerOdds, !.currentVig = m.vig,
                                !.outcome1 = m.outcome1, !.outcome2 = m.outcome2]
           isRiskThresholdBreached == checkRiskThresholds(o)
       IN  IF isRiskThresholdBreached # riskFlag
           THEN /\ riskFlag' = isRiskThresholdBreached
                /\ UNCHANGED lastOrderUpdateRecent
                /\ Continue(k, IF isRiskThresholdBreached
                               THEN handleRiskThresholdBreach(o)
                               ELSE handleRiskThresholdResolution(o, FALSE))
           ELSE IF /\ ~isRiskThresholdBreached
                   /\ o.activeOrderHash # NULL
                   /\ o.bestTakerOdds # o.lastOrderOdds
                THEN IF lastOrderUpdateRecent
                     THEN /\ Continue(k, Res(o, "end"))
                          /\ UNCHANGED << riskFlag, lastOrderUpdateRecent >>
                     ELSE /\ lastOrderUpdateRecent' = TRUE
                          /\ Continue(k, updateOrderForPosition(o, riskFlag))
                          /\ UNCHANGED riskFlag
                ELSE /\ Continue(k, Res(o, "end"))
                     /\ UNCHANGED << riskFlag, lastOrderUpdateRecent >>
    /\ UNCHANGED << positions, locallyCancelled >>
    /\ UNCHANGED rest
    /\ UNCHANGED << queueVars, gatewayVars, monitorVars, mirrorVars >>
    /\ Pace

\* updateFillStatus's operation
StartFillStatus ==
    /\ run.pc = "start" /\ Head(queue).kind = "fill"
    /\ LET k == Head(queue).obj
           o == [objs[k] EXCEPT !.fillAmount = toNominalAmount(Head(queue).fill)]
       IN  IF IsComplete(o.fillAmount, o.maxFillAmount)
           THEN LET c == [o EXCEPT !.status = "COMPLETED"]
                IN  Continue(k, IF c.activeOrderHash # NULL
                                THEN [Res(c, "f_cancel") EXCEPT !.hash = c.activeOrderHash]
                                ELSE Res(c, "end"))
           ELSE IF o.activeOrderHash # NULL /\ ~riskFlag
                THEN Continue(k, updateOrderForPosition(o, riskFlag))
                ELSE Continue(k, Res(o, "end"))
    /\ UNCHANGED << positions, riskFlag, lastOrderUpdateRecent, locallyCancelled >>
    /\ UNCHANGED rest
    /\ UNCHANGED << queueVars, gatewayVars, monitorVars, mirrorVars >>
    /\ Pace

\* postInitialOrder's operation
StartInitialOrder ==
    /\ run.pc = "start" /\ Head(queue).kind = "initial"
    /\ LET k == Head(queue).obj
           o == objs[k]
       IN  IF o.activeOrderHash # NULL
           THEN Continue(k, Res(o, "end")) /\ UNCHANGED riskFlag
           ELSE IF checkRiskThresholds(o)
                THEN Continue(k, Res(o, "end")) /\ riskFlag' = TRUE
                ELSE /\ Continue(k, [Res(o, "i_post") EXCEPT
                            !.odds = roundToNearestStep(applyPremium(o.bestTakerOdds, o.premium)),
                            !.stake = o.maxFillAmount - o.fillAmount])
                     /\ UNCHANGED riskFlag
    /\ UNCHANGED << positions, lastOrderUpdateRecent, locallyCancelled >>
    /\ UNCHANGED rest
    /\ UNCHANGED << queueVars, gatewayVars, monitorVars, mirrorVars >>
    /\ Pace

\* updatePosition's operation, with checkAndUpdateOrder: the copy is stored
\* and checkAndUpdateOrder works on the copy.
StartUpdatePosition ==
    /\ run.pc = "start" /\ Head(queue).kind = "edit"
    /\ LET position == objs[Head(queue).obj]
           e == Head(queue).edit
           updatedPosition == [position EXCEPT !.maxFillAmount = e.maxFillAmount,
                                   !.premium = e.premium, !.maxVig = e.maxVig,
                                   !.minLiquidity = e.minLiquidity]
           n == Len(objs) + 1
           base == Append(objs, updatedPosition)
       IN  /\ positions' = n
           /\ IF updatedPosition.status # "ACTIVE" \/ updatedPosition.activeOrderHash = NULL
              THEN ContinueOn(base, n, Res(updatedPosition, "end")) /\ UNCHANGED riskFlag
              ELSE IF checkRiskThresholds(updatedPosition)
                   THEN /\ riskFlag' = TRUE
                        /\ ContinueOn(base, n, handleRiskThresholdBreach(updatedPosition))
                   ELSE IF riskFlag
                        THEN /\ riskFlag' = FALSE
                             /\ ContinueOn(base, n,
                                    handleRiskThresholdResolution(updatedPosition, FALSE))
                        ELSE /\ ContinueOn(base, n,
                                    updateOrderForPosition(updatedPosition, riskFlag))
                             /\ UNCHANGED riskFlag
    /\ UNCHANGED << lastOrderUpdateRecent, locallyCancelled >>
    /\ UNCHANGED rest
    /\ UNCHANGED << queueVars, gatewayVars, monitorVars, mirrorVars >>
    /\ Pace

\* A close that forgets the orderStatus
closedKeepsOrderStatus(o) == [o EXCEPT !.activeOrderHash = NULL, !.status = "CLOSED"]

\* closePosition after the cancel: the order tracking is cleared, the order
\* book unsubscribed (no await suspends there), the position and its queue
\* deleted.  The array itself stays with the operations queued in it.
ClosedPosition(o) ==
    [o EXCEPT !.activeOrderHash = NULL, !.orderStatus = "CANCELLED_CLOSE",
              !.status = "CLOSED"]

\* closePosition's operation
StartClosePosition ==
    /\ run.pc = "start" /\ Head(queue).kind = "close"
    /\ LET k == Head(queue).obj
           o == objs[k]
       IN  IF o.activeOrderHash # NULL
           THEN /\ Continue(k, [Res(o, "c_cancel") EXCEPT !.track = o.activeOrderHash,
                                                          !.hash = o.activeOrderHash])
                /\ UNCHANGED << positions, queueRegistered, subscribed >>
           ELSE /\ Continue(k, Res(ClosedPosition(o), "end"))
                /\ positions' = NULL
                /\ queueRegistered' = FALSE
                /\ subscribed' = FALSE
    /\ UNCHANGED << riskFlag, lastOrderUpdateRecent, locallyCancelled,
                    queue, venue, shutdown, editsDone, delivered >>
    /\ UNCHANGED << queueVars, gatewayVars, monitorVars, mirrorVars >>
    /\ Pace

\* setTimeout(() => { if (queue.length > 0) { queue.shift(); if
\* (queue.length > 0) queue[0]() } }, 0)
QueueTimer ==
    /\ cli # "exited"
    /\ run.pc = "timer"
    /\ queue' = Tail(queue)
    /\ run' = IF Len(queue) > 1 THEN [Idle EXCEPT !.pc = "start"] ELSE Idle
    /\ UNCHANGED << objs, positions, riskFlag, queueRegistered, lastOrderUpdateRecent,
                    recentlyCancelledOrders, venue, subscribed, cli, shutdown,
                    editsDone, delivered, locallyCancelled >>
    /\ UNCHANGED << queueVars, gatewayVars, monitorVars, mirrorVars >>
    /\ Pace


(***************************************************************************)
(* Operations of positionManager.js, from one await to the next.  A        *)
(* gateway call (orderManager.js) makes up to MAX_RETRY_COUNT attempts;    *)
(* an attempt either reaches the venue and is answered, or fails and       *)
(* leaves the venue as it was.                                             *)
(***************************************************************************)
frame == << positions, riskFlag, queue, queueRegistered, lastOrderUpdateRecent,
            subscribed, shutdown, editsDone, delivered >>

\* The order taken for cancelled although cancelOrder threw: the
\* replacement is prepared
postsAfterFailedCancel(o) ==
    preparePost([o EXCEPT !.activeOrderHash = NULL, !.orderStatus = "CANCELLED_UPDATE"],
                riskFlag)

\* updateOrderForPosition, catch (cancelError): cancelOrder threw after its
\* last attempt; the error is logged and the function returns
cancelGivenUp(o) == Res(o, "end")

\* updateOrderForPosition: await cancelOrder(position.activeOrderHash)
UpdateCancelDone ==
    /\ Schedulable /\ run.pc = "u_cancel"
    /\ LET k == run.tgt
           o == objs[k]
           cancelled == [o EXCEPT !.activeOrderHash = NULL,
                                  !.orderStatus = "CANCELLED_UPDATE"]
       IN  \/ /\ cancelledCount({run.hash}) = 0
              /\ venue' = venue
              /\ run' = [run EXCEPT !.pc = "u_wait", !.retry = 0]
              /\ UNCHANGED << objs, recentlyCancelledOrders, cli, locallyCancelled >>
           \/ /\ cancelledCount({run.hash}) > 0
              /\ venue' = VenueAfterCancel({run.hash})
              /\ Continue(k, preparePost(cancelled, riskFlag))
              /\ locallyCancelled' = locallyCancelled \cup {run.hash}
           \/ /\ ~LastAttempt
              /\ Retry
              /\ UNCHANGED << objs, recentlyCancelledOrders, cli, venue, locallyCancelled >>
           \/ /\ LastAttempt
              /\ Continue(k, cancelGivenUp(o))
              /\ UNCHANGED << venue, locallyCancelled >>
    /\ UNCHANGED frame
    /\ UNCHANGED << queueVars, gatewayVars, monitorVars, mirrorVars >>
    /\ Pace

\* updateOrderForPosition: the 1000 ms wait after cancelledCount === 0
UpdateWaitDone ==
    /\ Schedulable /\ run.pc = "u_wait"
    /\ LET k == run.tgt
           o == objs[k]
       IN  IF o.status = "COMPLETED"
           THEN Continue(k, Res([o EXCEPT !.activeOrderHash = NULL,
                                          !.orderStatus = "COMPLETED"], "end"))
           ELSE Continue(k, preparePost([o EXCEPT !.activeOrderHash = NULL,
                                                  !.orderStatus = "CANCELLED_UPDATE"],
                                        riskFlag))
    /\ locallyCancelled' = locallyCancelled \cup {run.hash}
    /\ UNCHANGED venue
    /\ UNCHANGED frame
    /\ UNCHANGED << queueVars, gatewayVars, monitorVars, mirrorVars >>
    /\ Pace

\* updateOrderForPosition: the 500 ms delay, then await postMakerOrder(...)
UpdatePostDone ==
    /\ Schedulable /\ run.pc = "u_post"
    /\ LET k == run.tgt
           o == objs[k]
           odds == postMakerOrderOdds(run.odds)
       IN  \/ /\ VenueAccepts(run.stake, odds)
              /\ Len(venue) < MaxOrders
              /\ venue' = VenueAfterPost(run.stake, odds)
              /\ Continue(k, Res([o EXCEPT !.activeOrderHash = Len(venue) + 1,
                                           !.lastOrderOdds = o.bestTakerOdds,
                                           !.orderStatus = "ACTIVE"], "end"))
           \/ /\ ~LastAttempt
              /\ Retry
              /\ UNCHANGED << objs, recentlyCancelledOrders, cli, venue >>
           \/ /\ LastAttempt
              /\ Continue(k, Res([o EXCEPT !.orderStatus = "ERROR"], "end"))
              /\ UNCHANGED venue
    /\ UNCHANGED locallyCancelled
    /\ UNCHANGED frame
    /\ UNCHANGED << queueVars, gatewayVars, monitorVars, mirrorVars >>
    /\ Pace

\* postInitialOrder: await postMakerOrder(...)
InitialPostDone ==
    /\ Schedulable /\ run.pc = "i_post"
    /\ LET k == run.tgt
           o == objs[k]
           odds == postMakerOrderOdds(run.odds)
       IN  \/ /\ VenueAccepts(run.stake, odds)
              /\ Len(venue) < MaxOrders
              /\ venue' = VenueAfterPost(run.stake, odds)
              /\ Continue(k, Res([o EXCEPT !.activeOrderHash = Len(venue) + 1,
                                           !.lastOrderOdds = o.bestTakerOdds,
                                           !.orderStatus = "ACTIVE",
                                           !.status = "ACTIVE"], "end"))
           \/ /\ ~LastAttempt
              /\ Retry
              /\ UNCHANGED << objs, recentlyCancelledOrders, cli, venue >>
           \/ /\ LastAttempt
              /\ Continue(k, Res([o EXCEPT !.status = "ERROR"], "end"))
              /\ UNCHANGED venue
    /\ UNCHANGED locallyCancelled
    /\ UNCHANGED frame
    /\ UNCHANGED << queueVars, gatewayVars, monitorVars, mirrorVars >>
    /\ Pace

\* handleRiskThresholdBreach: await cancelOrder(position.activeOrderHash)
BreachCancelDone ==
    /\ Schedulable /\ run.pc = "b_cancel"
    /\ LET k == run.tgt
           o == objs[k]
       IN  \/ /\ venue' = VenueAfterCancel({run.hash})
              /\ Continue(k, Res([o EXCEPT !.activeOrderHash = NULL,
                                           !.orderStatus = "CANCELLED_RISK",
                                           !.status = "RISK_PAUSED"], "end"))
              /\ locallyCancelled' = locallyCancelled \cup {run.hash}
           \/ /\ ~LastAttempt
              /\ Retry
              /\ UNCHANGED << objs, recentlyCancelledOrders, cli, venue, locallyCancelled >>
           \/ /\ LastAttempt
              /\ Continue(k, Res(o, "end"))
              /\ UNCHANGED << venue, locallyCancelled >>
    /\ UNCHANGED frame
    /\ UNCHANGED << queueVars, gatewayVars, monitorVars, mirrorVars >>
    /\ Pace

\* updateFillStatus, position complete: await cancelOrder(position.activeOrderHash)
CompleteCancelDone ==
    /\ Schedulable /\ run.pc = "f_cancel"
    /\ LET k == run.tgt
           o == objs[k]
       IN  \/ /\ venue' = VenueAfterCancel({run.hash})
              /\ Continue(k, Res([o EXCEPT !.activeOrderHash = NULL,
                                           !.orderStatus = "CANCELLED"], "end"))
              /\ locallyCancelled' = locallyCancelled \cup {run.hash}
           \/ /\ ~LastAttempt
              /\ Retry
              /\ UNCHANGED << objs, recentlyCancelledOrders, cli, venue, locallyCancelled >>
           \/ /\ LastAttempt
              /\ Continue(k, Res(o, "end"))
              /\ UNCHANGED << venue, locallyCancelled >>
    /\ UNCHANGED frame
    /\ UNCHANGED << queueVars, gatewayVars, monitorVars, mirrorVars >>
    /\ Pace

\* closePosition: await cancelOrder(position.activeOrderHash)
CloseCancelDone ==
    /\ Schedulable /\ run.pc = "c_cancel"
    /\ LET k == run.tgt
           o == objs[k]
       IN  \/ /\ venue' = VenueAfterCancel({run.hash})
              /\ Continue(k, Res(ClosedPosition(o), "end"))
              /\ locallyCancelled' = locallyCancelled \cup {run.hash}
              /\ positions' = NULL
              /\ queueRegistered' = FALSE
              /\ subscribed' = FALSE
           \/ /\ ~LastAttempt
              /\ Retry
              /\ UNCHANGED << objs, recentlyCancelledOrders, cli, venue, locallyCancelled,
                              positions, queueRegistered, subscribed >>
           \/ /\ LastAttempt
              /\ Continue(k, Res(o, "end"))
              /\ UNCHANGED << venue, locallyCancelled, positions, queueRegistered,
                              subscribed >>
    /\ UNCHANGED << riskFlag, queue, lastOrderUpdateRecent, shutdown, editsDone, delivered >>
    /\ UNCHANGED << queueVars, gatewayVars, monitorVars, mirrorVars >>
    /\ Pace


(***************************************************************************)
(* The operator: cli/createPosition.js, cli/viewPositions.js               *)
(***************************************************************************)
cliFrame == << objs, positions, riskFlag, queueRegistered, lastOrderUpdateRecent,
               recentlyCancelledOrders, venue, locallyCancelled >>

\* initializeMarketMonitoring -> initializeOrderbook: the first
\* updateMarketData, awaited
CliInitializeOrderbook(m) ==
    /\ Schedulable /\ cli = "create"
    /\ positions # NULL
    /\ Enqueue(Op("md", m, 0, NoSettings))
    /\ cli' = "create_md"
    /\ UNCHANGED << subscribed, shutdown, editsDone, delivered >>
    /\ UNCHANGED cliFrame
    /\ UNCHANGED << queueVars, gatewayVars, monitorVars, mirrorVars >>
    /\ Pace

\* initializeMarketMonitoring: subscribeToOrderBook registers the callback
\* (push channel or polling fallback)
CliSubscribe ==
    /\ Schedulable /\ cli = "create_sub"
    /\ subscribed' = TRUE
    /\ cli' = "create_post"
    /\ UNCHANGED << queue, run, shutdown, editsDone, delivered >>
    /\ UNCHANGED cliFrame
    /\ UNCHANGED << queueVars, gatewayVars, monitorVars, mirrorVars >>
    /\ Pace

\* createPosition: await postInitialOrder(position.id)
CliPostInitialOrder ==
    /\ Schedulable /\ cli = "create_post"
    /\ positions # NULL
    /\ Enqueue(Op("initial", NoMarketData, 0, NoSettings))
    /\ cli' = "create_initial"
    /\ UNCHANGED << subscribed, shutdown, editsDone, delivered >>
    /\ UNCHANGED cliFrame
    /\ UNCHANGED << queueVars, gatewayVars, monitorVars, mirrorVars >>
    /\ Pace

\* handleEditPosition: await updatePosition(position.id, updatedSettings)
CliEditPosition(e) ==
    /\ OperatorActs
    /\ positions # NULL
    /\ editsDone < MaxEdits
    /\ Enqueue(Op("edit", NoMarketData, 0, e))
    /\ editsDone' = editsDone + 1
    /\ cli' = "edit_wait"
    /\ UNCHANGED << subscribed, shutdown, delivered >>
    /\ UNCHANGED cliFrame
    /\ UNCHANGED << queueVars, gatewayVars, monitorVars, mirrorVars >>
    /\ Pace

\* handleClosePosition: await closePosition(position.id)
CliClosePosition ==
    /\ OperatorActs
    /\ positions # NULL
    /\ Enqueue(Op("close", NoMarketData, 0, NoSettings))
    /\ cli' = "close_wait"
    /\ UNCHANGED << subscribed, shutdown, editsDone, delivered >>
    /\ UNCHANGED cliFrame
    /\ UNCHANGED << queueVars, gatewayVars, monitorVars, mirrorVars >>
    /\ Pace

(***************************************************************************)
(* Shutdown: exitApplication -> cancelAllActiveOrders ->                   *)
(* cancelAllPositionOrders, then closeConnection, then process.exit        *)
(***************************************************************************)
\* cancelAllPositionOrders: the hashes of the stored positions' active orders
ActiveOrderHashes ==
    IF positions # NULL /\ objs[positions].activeOrderHash # NULL
    THEN {objs[positions].activeOrderHash}
    ELSE {}

\* exitApplication up to the first await: with no hash collected
\* cancelAllPositionOrders returns at once
ExitApplication ==
    /\ OperatorActs
    /\ shutdown' = [hashes |-> ActiveOrderHashes, retry |-> 0]
    /\ cli' = IF ActiveOrderHashes = {} THEN "s_close" ELSE "s_cancel"
    /\ UNCHANGED << queue, run, subscribed, editsDone, delivered >>
    /\ UNCHANGED cliFrame
    /\ UNCHANGED << queueVars, gatewayVars, monitorVars, mirrorVars >>
    /\ Pace

\* cancelAllPositionOrders: await cancelOrders(orderHashes), then the
\* positions whose active order was in the batch are cleared
CancelAllDone ==
    /\ Schedulable /\ cli = "s_cancel"
    /\ \/ /\ venue' = VenueAfterCancel(shutdown.hashes)
          /\ objs' = IF ActiveOrderHashes # {} /\ ActiveOrderHashes \subseteq shutdown.hashes
                     THEN [objs EXCEPT ![positions].activeOrderHash = NULL,
                                       ![positions].orderStatus = "CANCELLED"]
                     ELSE objs
          /\ locallyCancelled' =
                 IF ActiveOrderHashes \subseteq shutdown.hashes
                 THEN locallyCancelled \cup ActiveOrderHashes
                 ELSE locallyCancelled
          /\ cli' = "s_close"
          /\ UNCHANGED shutdown
       \/ /\ shutdown.retry + 1 < MAX_RETRY_COUNT
          /\ shutdown' = [shutdown EXCEPT !.retry = shutdown.retry + 1]
          /\ UNCHANGED << venue, objs, locallyCancelled, cli >>
       \/ /\ shutdown.retry + 1 >= MAX_RETRY_COUNT
          /\ cli' = "s_failed"
          /\ UNCHANGED << venue, objs, locallyCancelled, shutdown >>
    /\ UNCHANGED << positions, riskFlag, queue, queueRegistered, run,
                    lastOrderUpdateRecent, recentlyCancelledOrders, subscribed,
                    editsDone, delivered >>
    /\ UNCHANGED << queueVars, gatewayVars, monitorVars, mirrorVars >>
    /\ Pace

\* exitApplication: await closeConnection()
CloseConnection ==
    /\ Schedulable /\ cli = "s_close"
    /\ subscribed' = FALSE
    /\ cli' = "s_done"
    /\ UNCHANGED << queue, run, shutdown, editsDone, delivered >>
    /\ UNCHANGED cliFrame
    /\ UNCHANGED << queueVars, gatewayVars, monitorVars, mirrorVars >>
    /\ Pace

\* exitApplication: setTimeout(() => process.exit(...), ...)
ProcessExit ==
    /\ Schedulable /\ cli \in {"s_done", "s_failed"}
    /\ cli' = "exited"
    /\ UNCHANGED << queue, run, subscribed, shutdown, editsDone, delivered >>
    /\ UNCHANGED cliFrame
    /\ UNCHANGED << queueVars, gatewayVars, monitorVars, mirrorVars >>
    /\ Pace

(***************************************************************************)
(* The market monitor's callback (handleOrderbookUpdate), the venue and    *)
(* the clock                                                               *)
(***************************************************************************)
\* The order book changed: updateMarketData for the position
DeliverMarketData(m) ==
    /\ Schedulable /\ subscribed
    /\ delivered < MaxDeliveries
    /\ delivered' = delivered + 1
    /\ positions # NULL
    /\ Enqueue(Op("md", m, 0, NoSettings))
    /\ UNCHANGED << subscribed, shutdown, editsDone, cli >>
    /\ UNCHANGED cliFrame
    /\ UNCHANGED << queueVars, gatewayVars, monitorVars, mirrorVars >>
    /\ Pace

\* handleOrderbookUpdate finds the position an update of an own order
\* belongs to: the one whose active order it is, else the one the
\* recently cancelled map names
FillHandlerFinds(h) ==
    /\ positions # NULL
    /\ \/ objs[positions].activeOrderHash = h
       \/ h \in recentlyCancelledOrders

\* An update of an own order with fillAmount > 0: updateFillStatus
DeliverFill(h) ==
    /\ Schedulable /\ subscribed
    /\ delivered < MaxDeliveries
    /\ delivered' = delivered + 1
    /\ h \in Orders
    /\ venue[h].fillAmount > 0
    /\ FillHandlerFinds(h)
    /\ Enqueue(Op("fill", NoMarketData, venue[h].fillAmount, NoSettings))
    /\ UNCHANGED << subscribed, shutdown, editsDone, cli >>
    /\ UNCHANGED cliFrame
    /\ UNCHANGED << queueVars, gatewayVars, monitorVars, mirrorVars >>
    /\ Pace

\* A taker takes a USDC of a live order
TakerFill(h, a) ==
    /\ Schedulable
    /\ h \in LiveOrders
    /\ a > 0
    /\ venue[h].fillAmount + parseStake(a) <= venue[h].totalBetSize
    /\ venue' = [venue EXCEPT ![h].fillAmount = @ + parseStake(a),
                              ![h].live = (venue[h].fillAmount + parseStake(a)
                                             < venue[h].totalBetSize)]
    /\ UNCHANGED << objs, positions, riskFlag, queue, queueRegistered, run,
                    lastOrderUpdateRecent, recentlyCancelledOrders, subscribed, cli,
                    shutdown, editsDone, delivered, locallyCancelled >>
    /\ UNCHANGED << queueVars, gatewayVars, monitorVars, mirrorVars >>
    /\ Pace


\* MIN_ORDER_UPDATE_INTERVAL has passed since the last order update
RateLimitElapses ==
    /\ Schedulable
    /\ lastOrderUpdateRecent
    /\ lastOrderUpdateRecent' = FALSE
    /\ UNCHANGED << objs, positions, riskFlag, queue, queueRegistered, run,
                    recentlyCancelledOrders, venue, subscribed, cli, shutdown,
                    editsDone, delivered, locallyCancelled >>
    /\ UNCHANGED << queueVars, gatewayVars, monitorVars, mirrorVars >>
    /\ Pace

\* MIN_ORDER_UPDATE_INTERVAL has passed since the last call of cancelOrder
\* or postMakerOrder for the position returned; the time stamp of the rate
\* limit, taken before the calls of its operation, is older still
IntervalElapses ==
    /\ Schedulable
    /\ orderCallRecent
    /\ ~lastOrderUpdateRecent
    /\ orderCallRecent' = FALSE
    /\ UNCHANGED << objs, positions, riskFlag, queue, queueRegistered, run,
                    lastOrderUpdateRecent, recentlyCancelledOrders, venue, subscribed,
                    cli, shutdown, editsDone, delivered, locallyCancelled >>
    /\ UNCHANGED << queueVars, gatewayVars, monitorVars, mirrorVars >>

\* The cancel request that follows trackCancelledOrder(h) has not returned
CancelInFlight(h) ==
    run.pc \in {"u_cancel", "u_wait", "b_cancel", "c_cancel"} /\ run.hash = h

\* RECENT_ORDER_TRACKING_TIME has passed since order h was cancelled: the
\* timeout of trackCancelledOrder deletes its entry.  A cancel request,
\* its retries included, takes less than that.
TrackingExpires(h) ==
    /\ Schedulable
    /\ h \in recentlyCancelledOrders \cup locallyCancelled
    /\ ~CancelInFlight(h)
    /\ recentlyCancelledOrders' = recentlyCancelledOrders \ {h}
    /\ locallyCancelled' = locallyCancelled \ {h}
    /\ UNCHANGED << objs, positions, riskFlag, queue, queueRegistered, run,
                    lastOrderUpdateRecent, venue, subscribed, cli, shutdown,
                    editsDone, delivered >>
    /\ UNCHANGED << queueVars, gatewayVars, monitorVars, mirrorVars >>
    /\ Pace

(***************************************************************************)
(* The program with one position and an operator who edits it, closes it   *)
(* and exits, while the market moves and nobody takes the orders           *)
(***************************************************************************)
Next ==
    \/ StartMarketData
    \/ StartInitialOrder
    \/ StartUpdatePosition
    \/ StartClosePosition
    \/ QueueTimer
    \/ UpdateCancelDone
    \/ UpdateWaitDone
    \/ UpdatePostDone
    \/ InitialPostDone
    \/ BreachCancelDone
    \/ CloseCancelDone
    \/ \E m \in MarketDataInputs : CliInitializeOrderbook(m)
    \/ CliSubscribe
    \/ CliPostInitialOrder
    \/ \E e \in EditInputs : CliEditPosition(e)
    \/ CliClosePosition
    \/ ExitApplication
    \/ CancelAllDone
    \/ CloseConnection
    \/ ProcessExit
    \/ \E m \in MarketDataInputs : DeliverMarketData(m)
    \/ RateLimitElapses

Spec == Init /\ [][Next]_vars

(***************************************************************************)
(* The program with one position whose orders are taken, while the market  *)
(* moves and the operator leaves the position alone                        *)
(***************************************************************************)
NextFills ==
    \/ StartMarketData
    \/ StartFillStatus
    \/ StartInitialOrder
    \/ QueueTimer
    \/ UpdateCancelDone
    \/ UpdateWaitDone
    \/ UpdatePostDone
    \/ InitialPostDone
    \/ BreachCancelDone
    \/ CompleteCancelDone
    \/ \E m \in MarketDataInputs : CliInitializeOrderbook(m)
    \/ CliSubscribe
    \/ CliPostInitialOrder
    \/ \E m \in MarketDataInputs : DeliverMarketData(m)
    \/ \E h \in Orders : DeliverFill(h)
    \/ \E h \in Orders :
         \E a \in FillAmounts \cup {toNominalAmount(venue[h].totalBetSize - venue[h].fillAmount)} :
           TakerFill(h, a)
    \/ RateLimitElapses
    \/ \E h \in Orders : TrackingExpires(h)

SpecFills == Init /\ [][NextFills]_vars

(***************************************************************************)
(* The program with one position whose premium is high, while the best     *)
(* taker odds move by one ladder step, fall to the lowest step, or are     *)
(* missing                                                                 *)
(***************************************************************************)
\* premium 60%: of the best taker odds 40% and 40.25% it leaves 16% and
\* 16.1%, both 16% on the ladder; of 0.25% it leaves 0.1%, which rounds to 0
QuoteSettings ==
    [maxFillAmount |-> 200, premium |-> 60, maxVig |-> 10, minLiquidity |-> 10]

\* Market data within the thresholds: best taker odds 40%, 40.25% (the
\* best maker of the other outcome one ladder step lower), 0.25% (that
\* maker at 99.75%), and none (no order of the other outcome leaves
\* minBetSizeOdds)
QuoteInputs ==
    { [bestTakerOdds |-> b, vig |-> IF b = NULL THEN NULL ELSE 2,
       outcome1 |-> 1000, outcome2 |-> 1000] : b \in {400000, 402500, 2500, NULL} }

NextQuotes ==
    \/ StartMarketData
    \/ StartInitialOrder
    \/ QueueTimer
    \/ UpdateCancelDone
    \/ UpdatePostDone
    \/ InitialPostDone
    \/ \E m \in QuoteInputs : CliInitializeOrderbook(m)
    \/ CliSubscribe
    \/ CliPostInitialOrder
    \/ \E m \in QuoteInputs : DeliverMarketData(m)
    \/ RateLimitElapses
    \/ IntervalElapses

SpecQuotes == InitOf(QuoteSettings) /\ [][NextQuotes]_vars

(***************************************************************************)

(* enqueueOperation on its own: the queues of several positions, the       *)
(* operations being any asynchronous functions                             *)
(***************************************************************************)
\* queue.length >= 1: true after every push
startsOnEveryPush(length) == length >= 1

\* if (queue.length === 1)
startsAtOnce(length) == length = 1

\* queue[0](): the wrapper calls operation()
StartHead(p, q) ==
    /\ executing' = [executing EXCEPT ![p] = @ \cup {Head(q)}]
    /\ startLog' = [startLog EXCEPT ![p] = Append(@, Head(q))]

\* enqueueOperation(positionId, operation): the operation is pushed, and
\* started if it is alone in the queue
enqueueOperation(p) ==
    /\ enqueued[p] < MaxOps
    /\ LET q == Append(operationQueues[p], enqueued[p] + 1)
       IN  /\ operationQueues' = [operationQueues EXCEPT ![p] = q]
           /\ IF startsAtOnce(Len(q))
              THEN StartHead(p, q)
              ELSE UNCHANGED << executing, startLog >>
    /\ enqueued' = [enqueued EXCEPT ![p] = @ + 1]
    /\ UNCHANGED << timers, rejected >>
    /\ UNCHANGED << positionVars, gatewayVars, monitorVars, mirrorVars >>

\* operation() returns (resolve) or throws (reject, and the error thrown
\* again to the .catch of the caller of queue[0]()): either way the
\* finally arms setTimeout(..., 0)
OperationSettles(p, op) ==
    /\ op \in executing[p]
    /\ executing' = [executing EXCEPT ![p] = @ \ {op}]
    /\ timers' = [timers EXCEPT ![p] = @ + 1]
    /\ \E threw \in BOOLEAN : rejected' = IF threw THEN p ELSE NULL
    /\ UNCHANGED << operationQueues, enqueued, startLog >>
    /\ UNCHANGED << positionVars, gatewayVars, monitorVars, mirrorVars >>

\* A timer's callback that shifts the finished operation out and starts
\* nothing
shiftsOnly(p) ==
    /\ timers[p] > 0
    /\ timers' = [timers EXCEPT ![p] = @ - 1]
    /\ operationQueues' = [operationQueues EXCEPT ![p] = IF Len(@) > 0 THEN Tail(@) ELSE @]
    /\ UNCHANGED << enqueued, rejected, executing, startLog >>
    /\ UNCHANGED << positionVars, gatewayVars, monitorVars, mirrorVars >>

\* The timer's callback: the finished operation is shifted out and the
\* next one, if any, started
TimerFires(p) ==
    /\ timers[p] > 0
    /\ timers' = [timers EXCEPT ![p] = @ - 1]
    /\ IF Len(operationQueues[p]) > 0
       THEN LET q == Tail(operationQueues[p])
            IN  /\ operationQueues' = [operationQueues EXCEPT ![p] = q]
                /\ IF Len(q) > 0
                   THEN StartHead(p, q)
                   ELSE UNCHANGED << executing, startLog >>
       ELSE UNCHANGED << operationQueues, executing, startLog >>
    /\ UNCHANGED << enqueued, rejected >>
    /\ UNCHANGED << positionVars, gatewayVars, monitorVars, mirrorVars >>

NextQueue ==
    \/ \E p \in QueuePositions : enqueueOperation(p)
    \/ \E p \in QueuePositions : \E op \in 1..MaxOps : OperationSettles(p, op)
    \/ \E p \in QueuePositions : TimerFires(p)

SpecQueue == Init /\ [][NextQueue]_vars

(***************************************************************************)
(* postMakerOrder on its own, called with any odds                         *)
(***************************************************************************)
\* postMakerOrder(orderParams) up to the retry loop
postMakerOrder(betSizeUSDC, impliedOdds) ==
    /\ gateway.pc = "idle"
    /\ gateway.calls < MaxCalls
    /\ gateway' = [pc |-> "posting", asked |-> impliedOdds, betSizeUSDC |-> betSizeUSDC,
                   impliedOdds |-> postMakerOrderOdds(impliedOdds), retryCount |-> 0,
                   calls |-> gateway.calls + 1, lastError |-> "none"]
    /\ UNCHANGED transmitted
    /\ UNCHANGED << positionVars, queueVars, monitorVars, mirrorVars >>

\* The errors one attempt may end with: the request does not get through
\* (fetch throws), or the venue answers with a status other than success
\* (postOrder throws 'API Error'); the catch of postMakerOrder takes both
PostErrors(betSizeUSDC, impliedOdds) ==
    IF VenueAccepts(betSizeUSDC, impliedOdds) THEN {"transport"}
    ELSE {"transport", "rejected"}

\* One pass of the retry loop: postOrder encodes the order and sends it;
\* the call returns on success, goes round on an error, and throws the
\* last error after MAX_RETRY_COUNT attempts
PostAttempt ==
    /\ gateway.pc = "posting"
    /\ transmitted' = Append(transmitted,
                             [ asked |-> gateway.asked,
                               totalBetSize |-> parseStake(gateway.betSizeUSDC),
                               percentageOdds |-> parseOdds(gateway.impliedOdds) ])
    /\ \/ /\ VenueAccepts(gateway.betSizeUSDC, gateway.impliedOdds)
          /\ gateway' = [gateway EXCEPT !.pc = "idle", !.lastError = "none"]
       \/ /\ gateway.retryCount + 1 < MAX_RETRY_COUNT
          /\ \E error \in PostErrors(gateway.betSizeUSDC, gateway.impliedOdds) :
                 gateway' = [gateway EXCEPT !.retryCount = @ + 1, !.lastError = error]
       \/ /\ gateway.retryCount + 1 >= MAX_RETRY_COUNT
          /\ \E error \in PostErrors(gateway.betSizeUSDC, gateway.impliedOdds) :
                 gateway' = [gateway EXCEPT !.pc = "idle", !.retryCount = @ + 1,
                                           !.lastError = error]
    /\ UNCHANGED << positionVars, queueVars, monitorVars, mirrorVars >>

NextGateway ==
    \/ \E impliedOdds \in OddsInputs : postMakerOrder(InitialSettings.maxFillAmount, impliedOdds)
    \/ PostAttempt

SpecGateway == Init /\ [][NextGateway]_vars

(***************************************************************************)
(* marketMonitor.js and api/websocket.js: the mirror of one market's       *)
(* order book, its subscription, and the positions created on the market   *)
(***************************************************************************)
\* An address as the venue and ethers write it: the account, and whether
\* the hexadecimal digits are all in lower case (wallet.address and the
\* venue's responses carry the checksummed, mixed-case form).
Address(account) == [account |-> account, lower |-> FALSE]
toLowerCase(address) == [address EXCEPT !.lower = TRUE]

\* ADDRESSES.MAKER = wallet.address
ADDRESSES_MAKER == Address("bot")

\* The orders that may be open on the market: two of other makers, one on
\* each outcome, and the active order of each position of the bot.
BookOrders == 1..(2 + MaxPositions)
OrderOfPosition(p) == 2 + p
maker(orderHash) == IF orderHash <= 2 THEN Address("other") ELSE ADDRESSES_MAKER
isMakerBettingOutcomeOne(orderHash) == orderHash # 2
\* position.activeOrderHash === orderHash, for a position that exists
activeOrderHash(p) == OrderOfPosition(p)

\* getPosition(positionId): the positions Map holds the position from
\* createNewPosition to the end of closePosition
getPosition(p) == stage[p] \in {"book", "attached"}
Attached == { p \in QueuePositions : stage[p] = "attached" }

\* The mirror kept whole, whoever the maker is
keepsEveryOrder(orders) == orders

\* processOrders: the orders of a snapshot, less those of the bot's own
\* maker address (order.maker !== ADDRESSES.MAKER)
processOrders(orders) == { o \in orders : maker(o) # ADDRESSES_MAKER }

\* handleOrderbookUpdate: the update is of one of the bot's own orders
IsOwnUpdate(update) == toLowerCase(maker(update.orderHash)) = toLowerCase(ADDRESSES_MAKER)

\* An update of the order book feed: [orderHash, status, fillAmount, maker, ...]
Update(orderHash, status, hasFill) ==
    [orderHash |-> orderHash, status |-> status, hasFill |-> hasFill]

\* handleOrderbookUpdate, the loop over the updates: the orders of the
\* mirror afterwards (no order occurs twice in a batch)
OrdersAfter(orders, updates) ==
    (orders \cup { u.orderHash : u \in { v \in updates : ~IsOwnUpdate(v) /\ v.status = "ACTIVE" } })
        \ { u.orderHash : u \in { v \in updates : ~IsOwnUpdate(v) /\ v.status = "INACTIVE" } }

\* handleOrderbookUpdate: orderbookChanged after the loop
orderbookChanged(orders, updates) ==
    \E u \in updates :
        /\ ~IsOwnUpdate(u)
        /\ \/ u.status = "ACTIVE"
           \/ u.status = "INACTIVE" /\ u.orderHash \in orders

\* Members of orderbook.positions, a Set kept in insertion order
Members(seq) == { seq[i] : i \in 1..Len(seq) }

\* handleOrderbookUpdate: the positions updateMarketData is called for.
\* The thresholds are read from the first position of the set; nothing is
\* delivered when that position is gone.
Notified(ob, updates) ==
    IF orderbookChanged(ob.orders, updates) /\ Len(ob.positions) > 0
          /\ getPosition(ob.positions[1])
    THEN { p \in Members(ob.positions) : getPosition(p) }
    ELSE {}

\* handleOrderbookUpdate: the positions updateFillStatus is called for, the
\* positions of the set whose active order an update reports a fill of
FillsRouted(ob, updates) ==
    { p \in Members(ob.positions) :
        /\ getPosition(p)
        /\ \E u \in updates : IsOwnUpdate(u) /\ u.hasFill /\ activeOrderHash(p) = u.orderHash }

\* handleOrderbookUpdate(marketHash, updates)
handleOrderbookUpdate(kind, updates) ==
    IF ~orderbooks.present
    THEN UNCHANGED << orderbooks, lastUpdate >>
    ELSE /\ orderbooks' = [orderbooks EXCEPT !.orders = OrdersAfter(@, updates)]
         /\ lastUpdate' =
                [ kind |-> kind,
                  input |-> { u.orderHash : u \in updates },
                  changed |-> orderbookChanged(orderbooks.orders, updates),
                  attached |-> Attached,
                  notified |-> Notified(orderbooks, updates),
                  ownFilled |-> { p \in Attached :
                                    \E u \in updates : u.hasFill /\ u.orderHash = OrderOfPosition(p) },
                  fills |-> FillsRouted(orderbooks, updates) ]

\* The subscription of the market hands updates to its callback: the
\* polling interval runs, or the channel belongs to a connection that is up
Delivering ==
    \/ intervals > 0
    \/ subscriptions = "channel" /\ realtime = "connected"

\* index.js init(): await initializeWebsocket(), its failure logged and
\* passed over.  initialize() assigns realtime before it waits for the
\* connection, so a connection that fails or times out leaves the client
\* object in place; realtime stays null when the constructor throws.
init ==
    /\ ~booted
    /\ booted' = TRUE
    /\ realtime' \in {"connected", "failed", "null"}
    /\ UNCHANGED << subscriptions, intervals, orderbooks, book, stage, lastUpdate >>
    /\ UNCHANGED << positionVars, queueVars, gatewayVars, mirrorVars >>

\* The CLI runs one flow at a time: no position is between the snapshot
\* and the subscription of its creation
CliFree == booted /\ \A q \in QueuePositions : stage[q] # "book"

\* createNewPosition, then initializeMarketMonitoring up to
\* initializeOrderbook: the snapshot is fetched (it is empty after three
\* failed fetches) and a new orderbook is stored for the market, with the
\* new position as its only position.
initializeMarketMonitoring(p) ==
    /\ CliFree
    /\ stage[p] = "none"
    /\ \E ordersSnapshot \in {book, {}} :
          /\ orderbooks' = [positions |-> << p >>,
                            orders |-> processOrders(ordersSnapshot),
                            present |-> TRUE]
          /\ lastUpdate' = [NoUpdate EXCEPT !.kind = "snapshot", !.input = ordersSnapshot,
                                            !.changed = TRUE, !.attached = Attached,
                                            !.notified = {p}]
    /\ stage' = [stage EXCEPT ![p] = "book"]
    /\ UNCHANGED << booted, realtime, subscriptions, intervals, book >>
    /\ UNCHANGED << positionVars, queueVars, gatewayVars, mirrorVars >>

\* subscribeToOrderBook(marketHash, callback), called by
\* initializeMarketMonitoring; it returns true on every path, so the
\* polling of marketMonitor.js itself is never set up.
subscribeToOrderBook(p) ==
    /\ booted
    /\ stage[p] = "book"
    /\ \/ \* !realtime, and initialize() throws: polling fallback, whether
          \* or not the market is subscribed already
          /\ realtime = "null"
          /\ realtime' \in {"failed", "null"}
          /\ subscriptions' = "polling"
          /\ intervals' = intervals + 1
       \/ \* !realtime, and initialize() connects; or realtime is set
          /\ \/ realtime = "null" /\ realtime' = "connected"
             \/ realtime # "null" /\ realtime' = realtime
          /\ \/ /\ subscriptions # "none"
                /\ UNCHANGED << subscriptions, intervals >>
             \/ \* channel.subscribe(...) returns: 'assume it works'
                /\ subscriptions = "none"
                /\ subscriptions' = "channel"
                /\ UNCHANGED intervals
             \/ \* channel.subscribe(...) throws: polling fallback
                /\ subscriptions = "none"
                /\ realtime' # "connected"
                /\ subscriptions' = "polling"
                /\ intervals' = intervals + 1
    /\ stage' = [stage EXCEPT ![p] = "attached"]
    /\ UNCHANGED << booted, orderbooks, book, lastUpdate >>
    /\ UNCHANGED << positionVars, queueVars, gatewayVars, mirrorVars >>

\* The venue's order book changes by one order: an order is posted
\* (ACTIVE), goes (INACTIVE), or an order of the bot is partly filled
\* (ACTIVE with a fill amount).  The channel carries the update to the
\* callback when it delivers; in polling mode it is not sent.
VenueUpdate(u) ==
    /\ booted
    /\ \/ /\ u.status = "ACTIVE" /\ ~u.hasFill /\ u.orderHash \notin book
          /\ IsOwnUpdate(u) => \E p \in Attached : OrderOfPosition(p) = u.orderHash
          /\ book' = book \cup {u.orderHash}
       \/ /\ u.status = "INACTIVE" /\ ~u.hasFill /\ u.orderHash \in book
          /\ book' = book \ {u.orderHash}
       \/ /\ u.status = "ACTIVE" /\ u.hasFill /\ u.orderHash \in book
          /\ IsOwnUpdate(u)
          /\ book' = book
    /\ IF subscriptions = "channel" /\ realtime = "connected"
       THEN handleOrderbookUpdate("push", {u})
       ELSE UNCHANGED << orderbooks, lastUpdate >>
    /\ UNCHANGED << booted, realtime, subscriptions, intervals, stage >>
    /\ UNCHANGED << positionVars, queueVars, gatewayVars, mirrorVars >>

\* setupPollingFallback, the interval's callback: the orders fetched, every
\* one turned into an ACTIVE update, and the callback called with them
pollOrders ==
    /\ intervals > 0
    /\ handleOrderbookUpdate("poll", { Update(o, "ACTIVE", FALSE) : o \in book })
    /\ UNCHANGED << booted, realtime, subscriptions, intervals, book, stage >>
    /\ UNCHANGED << positionVars, queueVars, gatewayVars, mirrorVars >>

\* closePosition: the active order is cancelled, the market unsubscribed
\* (unsubscribeFromOrderBook(position.marketHash): the stored interval is
\* cleared, or the channel unsubscribed) and the position deleted;
\* orderbook.positions and the orderbook are left as they are.
closePosition(p) ==
    /\ CliFree
    /\ stage[p] = "attached"
    /\ book' = book \ {OrderOfPosition(p)}
    /\ subscriptions' = "none"
    /\ intervals' = IF subscriptions = "polling" THEN intervals - 1 ELSE intervals
    /\ stage' = [stage EXCEPT ![p] = "closed"]
    /\ UNCHANGED << booted, realtime, orderbooks, lastUpdate >>
    /\ UNCHANGED << positionVars, queueVars, gatewayVars, mirrorVars >>

Updates ==
    { Update(o, s, f) : o \in BookOrders, s \in {"ACTIVE", "INACTIVE"}, f \in BOOLEAN }

NextMonitor ==
    \/ init
    \/ \E p \in QueuePositions : initializeMarketMonitoring(p)
    \/ \E p \in QueuePositions : subscribeToOrderBook(p)
    \/ \E u \in Updates : VenueUpdate(u)
    \/ pollOrders
    \/ \E p \in QueuePositions : closePosition(p)

SpecMonitor == Init /\ [][NextMonitor]_vars

(***************************************************************************)
(* The creation of a position from a snapshot of the order book:           *)
(* initializeOrderbook, calculateOrderbookMetrics, postInitialOrder        *)
(***************************************************************************)
\* The orders as the venue reports them: order 2, of another maker on
\* outcome two, at 60% for 100 USDC; order 1, of another maker on outcome
\* one, at 55% for 100 USDC; the bot's own orders on outcome one at 36% for
\* 50 USDC; order 0, of another maker on outcome one, at 36% for 100 USDC.
\* None of a snapshot's orders is filled where the snapshot is a set of
\* order hashes.
percentageOdds(orderHash) ==
    parseOdds(IF orderHash = 1 THEN 550000 ELSE IF orderHash = 2 THEN 600000 ELSE 360000)
totalBetSize(orderHash) == parseStake(IF orderHash <= 2 THEN 100 ELSE 50)
fillAmount(orderHash) == 0

\* orderUtils.js toImpliedOdds: percentageOdds / 10^20
toImpliedOdds(wire) == wire \div OddsWirePerUnit

\* processOrders: remainingSize
remainingSize(orderHash) == toNominalAmount(totalBetSize(orderHash) - fillAmount(orderHash))

RECURSIVE SumOfRemaining(_)
SumOfRemaining(orders) ==
    IF orders = {} THEN 0
    ELSE LET o == CHOOSE x \in orders : TRUE
         IN  remainingSize(o) + SumOfRemaining(orders \ {o})

\* calculateOrderbookMetrics: the best taker odds of an outcome come from
\* the highest maker odds among the orders of the other outcome that leave
\* at least minBetSizeOdds, and are null when there is none
bestTakerOddsOf(orders, outcome, minBetSizeOdds) ==
    LET eligibleOrders ==
            { o \in orders :
                /\ (outcome = 1 /\ ~isMakerBettingOutcomeOne(o))
                       \/ (outcome = 2 /\ isMakerBettingOutcomeOne(o))
                /\ remainingSize(o) >= minBetSizeOdds }
    IN  IF eligibleOrders = {} THEN NULL
        ELSE LET best == CHOOSE o \in eligibleOrders :
                            \A x \in eligibleOrders : percentageOdds(x) <= percentageOdds(o)
             IN  OddsScale - toImpliedOdds(percentageOdds(best))

\* calculateOrderbookMetrics: the liquidity of an outcome is what remains
\* of the orders whose maker bets on it
liquidityOf(orders, outcome) ==
    SumOfRemaining({ o \in orders : isMakerBettingOutcomeOne(o) <=> (outcome = 1) })

\* calculateOrderbookMetrics: vig in percent, null unless both outcomes have
\* best taker odds (the odds of the orders above make it a whole number)
vigOf(best1, best2) ==
    IF best1 # NULL /\ best2 # NULL
    THEN ((best1 + best2 - OddsScale) * 100) \div OddsScale
    ELSE NULL

\* CLI.DEFAULT_MIN_BET_SIZE_ODDS, the minBetSizeOdds of the positions
DEFAULT_MIN_BET_SIZE_ODDS == 10

\* initializeOrderbook, handleOrderbookUpdate: the market data handed to
\* updateMarketData for a position on outcome one, from the orders of the
\* mirror
MarketDataOf(orders) ==
    LET best1 == bestTakerOddsOf(orders, 1, DEFAULT_MIN_BET_SIZE_ODDS)
        best2 == bestTakerOddsOf(orders, 2, DEFAULT_MIN_BET_SIZE_ODDS)
    IN  [ bestTakerOdds |-> best1, vig |-> vigOf(best1, best2),
          outcome1 |-> liquidityOf(orders, 1), outcome2 |-> liquidityOf(orders, 2) ]

\* The snapshots fetchOrders may return, and the mirror each one gives
Snapshots == SUBSET BookOrders
SnapshotMarketData == { MarketDataOf(processOrders(snapshot)) : snapshot \in Snapshots }

\* The settings and the snapshot of scenario S1: premium 10%, maxStake 50,
\* maxVig 10%, minLiquidity 10; one order of another maker on the other
\* side, at 60% for 100.
S1Settings == [maxFillAmount |-> 50, premium |-> 10, maxVig |-> 10, minLiquidity |-> 10]
S1Snapshot == {2}

NextCreate ==
    \/ \E m \in SnapshotMarketData : CliInitializeOrderbook(m)
    \/ CliSubscribe
    \/ CliPostInitialOrder
    \/ StartMarketData
    \/ StartInitialOrder
    \/ QueueTimer
    \/ InitialPostDone
    \/ UpdatePostDone
    \/ BreachCancelDone
    \/ \E m \in SnapshotMarketData : DeliverMarketData(m)

SpecCreate == InitOf(S1Settings) /\ [][NextCreate]_vars

(***************************************************************************)
(* marketMonitor.js on its own: the orders of the mirror one by one, with  *)
(* their fills, and the metrics computed from them.  One position is       *)
(* attached to the market and stays.                                       *)
(***************************************************************************)
MaxTime == 2        \* update times the feed stamps its updates with
MaxBatches == 2     \* update batches handled after one snapshot

\* CLI.DEFAULT_MIN_BET_SIZE_VIG, the minBetSizeVig of the positions
DEFAULT_MIN_BET_SIZE_VIG == 20

\* The position calculateOrderbookMetrics reads its thresholds from
MirrorPosition ==
    [minBetSizeOdds |-> DEFAULT_MIN_BET_SIZE_ODDS, minBetSizeVig |-> DEFAULT_MIN_BET_SIZE_VIG]

\* The fill amount the venue reports of an order: nothing, or all but 15 USDC
FillOf(orderHash, filled) ==
    IF filled THEN totalBetSize(orderHash) - parseStake(15) ELSE 0

\* An order as fetchOrders returns it, and an update of the feed:
\* [orderHash, status, fillAmount, maker, ..., updateTime, ...]
FeedOrder(orderHash, fill) == [orderHash |-> orderHash, fillAmount |-> fill]
Delta(orderHash, status, fill, updateTime) ==
    [orderHash |-> orderHash, status |-> status, fillAmount |-> fill,
     updateTime |-> updateTime]

\* The snapshots fetchOrders may return: any orders of the feed, each
\* once, filled or not (the bot's own order not filled)
FeedSnapshots ==
    UNION { { { FeedOrder(h, FillOf(h, filled[h])) : h \in S } :
                filled \in { f \in [S -> BOOLEAN] : \A h \in S : f[h] => h <= 2 } } :
            S \in SUBSET FeedOrders }

\* The updates the feed may carry
Deltas ==
    UNION { { Delta(h, status, FillOf(h, filled), t) :
                status \in {"ACTIVE", "INACTIVE"}, filled \in BOOLEAN, t \in 1..MaxTime } :
            h \in FeedOrders }

\* processOrders, and the new order of handleOrderbookUpdate: the order as
\* the mirror keeps it
MirrorOrder(orderHash, fill) ==
    [orderHash |-> orderHash, fillAmount |-> fill,
     remainingSize |-> toNominalAmount(totalBetSize(orderHash) - fill)]

\* groupOrdersByOutcome: the orders whose maker bets on the outcome
groupOrdersByOutcome(snapshot, outcome) ==
    { o \in snapshot : isMakerBettingOutcomeOne(o.orderHash) <=> (outcome = 1) }

\* The orders of a response, in the order of their hashes
RECURSIVE InOrder(_)
InOrder(S) ==
    IF S = {} THEN << >>
    ELSE LET o == CHOOSE x \in S : \A y \in S : x.orderHash <= y.orderHash
         IN  << o >> \o InOrder(S \ {o})

\* initializeOrderbook: orderbook.orders[outcome] =
\* processOrders(groupedOrders[outcome], outcome)
MirrorOfSnapshot(snapshot) ==
    [ outcome \in 1..2 |->
        LET kept == InOrder({ o \in groupOrdersByOutcome(snapshot, outcome) :
                                o.orderHash \in processOrders({o.orderHash}) })
        IN  [ i \in 1..Len(kept) |-> MirrorOrder(kept[i].orderHash, kept[i].fillAmount) ] ]

\* No order is ever found
findsNothing(bucket, orderHash) == 0

\* orders.findIndex(order => order.orderHash === orderHash), counted from
\* 1; 0 stands for -1
findIndex(bucket, orderHash) ==
    IF \E i \in 1..Len(bucket) : bucket[i].orderHash = orderHash
    THEN CHOOSE i \in 1..Len(bucket) :
            /\ bucket[i].orderHash = orderHash
            /\ \A j \in 1..(i - 1) : bucket[j].orderHash # orderHash
    ELSE 0

\* What is left of an order, all of it taken for unfilled
ignoresFill(update) == toNominalAmount(totalBetSize(update.orderHash))

\* handleOrderbookUpdate, an update of an order the mirror holds:
\* remainingSize = toNominalAmount(totalBetSize - updatedFillAmount)
remainingOfUpdate(update) ==
    toNominalAmount(totalBetSize(update.orderHash) - update.fillAmount)

\* array.splice(index, 1)
splice(bucket, index) ==
    [ i \in 1..(Len(bucket) - 1) |-> IF i < index THEN bucket[i] ELSE bucket[i + 1] ]

\* handleOrderbookUpdate, one round of the loop over the updates: the
\* orders of the mirror afterwards
applyUpdate(m, update) ==
    IF IsOwnUpdate(update) THEN m
    ELSE IF update.status = "ACTIVE"
    THEN LET makerOutcome == IF isMakerBettingOutcomeOne(update.orderHash) THEN 1 ELSE 2
             existingOrderIndex == findIndex(m[makerOutcome], update.orderHash)
         IN  IF existingOrderIndex > 0
             THEN [m EXCEPT ![makerOutcome][existingOrderIndex].fillAmount = update.fillAmount,
                            ![makerOutcome][existingOrderIndex].remainingSize =
                                remainingOfUpdate(update)]
             ELSE [m EXCEPT ![makerOutcome] =
                                Append(@, MirrorOrder(update.orderHash, update.fillAmount))]
    ELSE IF findIndex(m[1], update.orderHash) > 0
    THEN [m EXCEPT ![1] = splice(@, findIndex(m[1], update.orderHash))]
    ELSE IF findIndex(m[2], update.orderHash) > 0
    THEN [m EXCEPT ![2] = splice(@, findIndex(m[2], update.orderHash))]
    ELSE m

\* handleOrderbookUpdate, one round of the loop: orderbookChanged is set
changesOrderbook(m, update) ==
    /\ ~IsOwnUpdate(update)
    /\ \/ update.status = "ACTIVE"
       \/ findIndex(m[1], update.orderHash) > 0
       \/ findIndex(m[2], update.orderHash) > 0

\* handleOrderbookUpdate, the loop over the updates of a batch
RECURSIVE MirrorAfter(_, _)
MirrorAfter(m, updates) ==
    IF updates = << >> THEN m
    ELSE MirrorAfter(applyUpdate(m, Head(updates)), Tail(updates))

RECURSIVE ChangedBy(_, _)
ChangedBy(m, updates) ==
    IF updates = << >> THEN FALSE
    ELSE \/ changesOrderbook(m, Head(updates))
         \/ ChangedBy(applyUpdate(m, Head(updates)), Tail(updates))

\* The orders of the two arrays together
Kept(m) == { m[1][i] : i \in 1..Len(m[1]) } \cup { m[2][i] : i \in 1..Len(m[2]) }

\* calculateOrderbookMetrics: the best taker odds of an outcome, from the
\* orders of the makers of the other outcome that leave at least minBetSize
bestTakerOddsIn(m, outcome, minBetSize) ==
    LET eligibleOrders ==
            { o \in Kept(m) :
                /\ (outcome = 1 /\ ~isMakerBettingOutcomeOne(o.orderHash))
                       \/ (outcome = 2 /\ isMakerBettingOutcomeOne(o.orderHash))
                /\ o.remainingSize >= minBetSize }
    IN  IF eligibleOrders = {} THEN NULL
        ELSE LET best == CHOOSE o \in eligibleOrders :
                            \A x \in eligibleOrders :
                                percentageOdds(x.orderHash) <= percentageOdds(o.orderHash)
             IN  OddsScale - toImpliedOdds(percentageOdds(best.orderHash))

\* orderbook.orders[outcome].reduce((sum, order) => sum + order.remainingSize, 0)
RECURSIVE totalLiquidity(_)
totalLiquidity(bucket) ==
    IF bucket = << >> THEN 0
    ELSE Head(bucket).remainingSize + totalLiquidity(Tail(bucket))

\* calculateOrderbookMetrics(orderbook, position)
calculateOrderbookMetrics(m, position) ==
    LET best1 == bestTakerOddsIn(m, 1, position.minBetSizeOdds)
        best2 == bestTakerOddsIn(m, 2, position.minBetSizeOdds)
    IN  [ bestTakerOdds |-> << best1, best2 >>,
          liquidity |-> << totalLiquidity(m[1]), totalLiquidity(m[2]) >>,
          vig |-> vigOf(best1, best2) ]

\* initializeOrderbook(marketHash, ordersSnapshot, position): a new
\* orderbook is stored for the market
initializeOrderbook(snapshot) ==
    /\ mirror' = MirrorOfSnapshot(snapshot)
    /\ metrics' = calculateOrderbookMetrics(MirrorOfSnapshot(snapshot), MirrorPosition)
    /\ updateTimes' = [h \in FeedOrders |-> 0]
    /\ feed' = [kind |-> "snapshot", fresh |-> TRUE,
                own |-> (\E o \in snapshot : IsOwnUpdate(o)),
                stale |-> FALSE, handled |-> 0]
    /\ UNCHANGED << positionVars, queueVars, gatewayVars, monitorVars, batchVars >>

\* The update time of the last update of a batch for the order; own orders
\* are passed over
RECURSIVE TimesAfter(_, _)
TimesAfter(times, updates) ==
    IF updates = << >> THEN times
    ELSE TimesAfter(IF IsOwnUpdate(Head(updates)) THEN times
                    ELSE [times EXCEPT ![Head(updates).orderHash] = Head(updates).updateTime],
                    Tail(updates))

\* handleOrderbookUpdate(marketHash, updates) for the batch of a message
\* or of a poll: the metrics are computed again when orderbookChanged
HandleUpdates(kind, updates, stale) ==
    /\ feed.kind # "none"
    /\ feed.handled < MaxBatches
    /\ mirror' = MirrorAfter(mirror, updates)
    /\ metrics' = IF ChangedBy(mirror, updates)
                  THEN calculateOrderbookMetrics(MirrorAfter(mirror, updates), MirrorPosition)
                  ELSE metrics
    /\ updateTimes' = TimesAfter(updateTimes, updates)
    /\ feed' = [feed EXCEPT !.kind = kind, !.fresh = FALSE, !.stale = stale,
                            !.handled = @ + 1]
    /\ UNCHANGED << positionVars, queueVars, gatewayVars, monitorVars, batchVars >>

\* A message of the channel with one update, whatever its update time
DeltaArrives(update) ==
    /\ update \in Deltas
    /\ HandleUpdates("delta", << update >>,
                     ~IsOwnUpdate(update) /\ update.updateTime <= updateTimes[update.orderHash])

\* The orders of the snapshot come again as ACTIVE updates, as the poll of
\* setupPollingFallback sends them while the order book stands still: the
\* orders the mirror took from the snapshot, and the bot's own order if the
\* snapshot held it
SnapshotAsUpdates ==
    [ i \in 1..(Len(mirror[1]) + Len(mirror[2])) |->
        LET o == (mirror[1] \o mirror[2])[i]
        IN  Delta(o.orderHash, "ACTIVE", o.fillAmount, MaxTime) ]
      \o (IF feed.own THEN << Delta(OrderOfPosition(1), "ACTIVE", 0, MaxTime) >> ELSE << >>)

SnapshotReplayed ==
    /\ feed.fresh
    /\ HandleUpdates("replay", SnapshotAsUpdates, FALSE)

\* floor(amount * numerator / denominator), no product beyond 32 bits
MulDiv(amount, numerator, denominator) ==
    (amount \div denominator) * numerator + ((amount % denominator) * numerator) \div denominator

RECURSIVE GCD(_, _)
GCD(a, b) == IF b = 0 THEN a ELSE GCD(b, a % b)

\* orderUtils.js calculateRemainingTakerSpace, before its conversion to
\* nominal units (the amount need not be a whole number of USDC):
\* remainingMakerAmount * 10^20 / percentageOdds - remainingMakerAmount.
\* No code calls it.
calculateRemainingTakerSpace(total, fill, odds) ==
    LET remainingMakerAmount == total - fill
    IN  IF remainingMakerAmount <= 0 \/ odds <= 0 THEN 0
        ELSE MulDiv(remainingMakerAmount, ODDS_UNIT \div GCD(ODDS_UNIT, odds),
                    odds \div GCD(ODDS_UNIT, odds)) - remainingMakerAmount

NextMirror ==
    \/ \E snapshot \in FeedSnapshots : initializeOrderbook(snapshot)
    \/ \E update \in Deltas : DeltaArrives(update)
    \/ SnapshotReplayed

SpecMirror == Init /\ [][NextMirror]_vars

(***************************************************************************)
(* handleOrderbookUpdate call by call.  The callback of the channel        *)
(* (websocket.js: callback(marketHash, message.data), not awaited) starts  *)
(* a call for every message; a call is suspended at await                  *)
(* updateFillStatus(...) until the fill operation of the position has run, *)
(* and at await updateMarketData(...); other calls start and run           *)
(* meanwhile.  The bot's own order of the feed is the active order of the  *)
(* attached position.                                                      *)
(***************************************************************************)
MaxInFlight == 2    \* messages of the channel after the snapshot
MaxBatchLen == 2    \* updates in one message

\* A fill amount, or a stake, that is no decimal number ("abc")
NotANumber == NULL - 1

\* An element of message.data: form "ok" for an array with its fields;
\* "notArray" for what is no array of ten elements, "missing" for an array
\* without maker, "badFill" and "badStake" for text in fillAmount and in
\* totalBetSize
BatchUpdate(orderHash, status, fill, form) ==
    [orderHash |-> orderHash, status |-> status, fillAmount |-> fill,
     updateTime |-> 1, form |-> form]

BatchUpdates ==
    { BatchUpdate(1, status, FillOf(1, filled), "ok") :
          status \in {"ACTIVE", "INACTIVE"}, filled \in BOOLEAN }
      \cup { BatchUpdate(OrderOfPosition(1), "ACTIVE", FillOf(OrderOfPosition(1), filled), "ok") :
                 filled \in BOOLEAN }
      \cup { BatchUpdate(1, "ACTIVE", 0, form) : form \in {"notArray", "missing", "badStake"} }
      \cup { BatchUpdate(h, "ACTIVE", NotANumber, "badFill") : h \in {1, OrderOfPosition(1)} }

Malformed == { u \in BatchUpdates : u.form # "ok" }

Batches ==
    UNION { [1..n -> BatchUpdates] : n \in 1..MaxBatchLen }

\* The snapshots the batches follow: no order, or order 1 unfilled
BatchSnapshots == { {}, { FeedOrder(1, 0) } }

\* handleOrderbookUpdate, one round of the loop over the updates: the
\* mirror afterwards, whether orderbookChanged was set, whether the update
\* reached the ACTIVE / INACTIVE branches, and how the round ends: "next"
\* (continue, or the end of the body), "await" (await updateFillStatus),
\* "throw" (BigInt of text: the catch around the loop is entered)
Round(m, changed, applied, stop) ==
    [mirror |-> m, changed |-> changed, applied |-> applied, stop |-> stop]

handleOne(m, update) ==
    IF update.form \in {"notArray", "missing"} THEN Round(m, FALSE, FALSE, "next")
    ELSE IF IsOwnUpdate(update)
    THEN IF update.form = "badFill" THEN Round(m, FALSE, FALSE, "throw")
         ELSE IF update.fillAmount > 0 THEN Round(m, FALSE, FALSE, "await")
         ELSE Round(m, FALSE, FALSE, "next")
    ELSE IF update.status = "ACTIVE" /\ update.form # "ok"
    THEN LET makerOutcome == IF isMakerBettingOutcomeOne(update.orderHash) THEN 1 ELSE 2
             existingOrderIndex == findIndex(m[makerOutcome], update.orderHash)
         IN  IF existingOrderIndex > 0
             THEN Round([m EXCEPT ![makerOutcome][existingOrderIndex].fillAmount =
                                      update.fillAmount],
                        FALSE, FALSE, "throw")
             ELSE Round(m, FALSE, FALSE, "throw")
    ELSE Round(applyUpdate(m, update), changesOrderbook(m, update), TRUE, "next")

\* The loop from update i on, until the call is suspended, throws or has
\* gone through the batch ("end"); n counts the updates applied
RECURSIVE runLoop(_, _, _, _, _)
runLoop(m, updates, i, changed, n) ==
    IF i > Len(updates)
    THEN [mirror |-> m, i |-> i, changed |-> changed, stop |-> "end", applied |-> n]
    ELSE LET r == handleOne(m, updates[i])
         IN  IF r.stop = "next"
             THEN runLoop(r.mirror, updates, i + 1, changed \/ r.changed,
                          n + (IF r.applied THEN 1 ELSE 0))
             ELSE [mirror |-> r.mirror, i |-> i + 1, changed |-> changed,
                   stop |-> r.stop, applied |-> n]

\* The call of batch b goes on from update i until its next await or its
\* return: after the loop, if (orderbookChanged) the metrics are computed
\* and the market data goes to updateMarketData, which the call awaits
Proceed(b, updates, i, changed) ==
    LET r == runLoop(mirror, updates, i, changed, 0)
        call == [updates |-> updates, i |-> r.i, changed |-> r.changed,
                 pc |-> IF r.stop = "await" THEN "fill"
                        ELSE IF r.stop = "throw" THEN "caught"
                        ELSE IF r.changed THEN "notify" ELSE "returned"]
    IN  /\ mirror' = r.mirror
        /\ handlers' = IF b > Len(handlers) THEN Append(handlers, call)
                       ELSE [handlers EXCEPT ![b] = call]
        /\ applyLog' = applyLog \o [j \in 1..r.applied |-> b]
        /\ metrics' = IF r.stop = "end" /\ r.changed
                      THEN calculateOrderbookMetrics(r.mirror, MirrorPosition)
                      ELSE metrics
        /\ events' = IF r.stop = "end" /\ r.changed THEN events \cup {b} ELSE events
        /\ UNCHANGED << updateTimes, feed >>
        /\ UNCHANGED << positionVars, queueVars, gatewayVars, monitorVars >>

\* The order book of the market is initialised, before any message
MarketMonitored(snapshot) ==
    /\ feed.kind = "none"
    /\ initializeOrderbook(snapshot)

\* A message of the channel: handleOrderbookUpdate(marketHash, message.data)
BatchArrives(updates) ==
    /\ feed.kind # "none"
    /\ Len(handlers) < MaxInFlight
    /\ Proceed(Len(handlers) + 1, updates, 1, FALSE)

\* The fill operation updateFillStatus enqueued has run: the call goes on
\* with the next update
FillStatusUpdated(b) ==
    /\ handlers[b].pc = "fill"
    /\ Proceed(b, handlers[b].updates, handlers[b].i, handlers[b].changed)

\* updateMarketData has returned: the call returns
MarketDataUpdated(b) ==
    /\ handlers[b].pc = "notify"
    /\ handlers' = [handlers EXCEPT ![b].pc = "returned"]
    /\ UNCHANGED << mirror, metrics, updateTimes, feed, applyLog, events >>
    /\ UNCHANGED << positionVars, queueVars, gatewayVars, monitorVars >>

NextBatches ==
    \/ \E snapshot \in BatchSnapshots : MarketMonitored(snapshot)
    \/ \E updates \in Batches : BatchArrives(updates)
    \/ \E b \in 1..Len(handlers) : FillStatusUpdated(b)
    \/ \E b \in 1..Len(handlers) : MarketDataUpdated(b)

SpecBatches == Init /\ [][NextBatches]_vars

(***************************************************************************)
(* Properties                                                              *)
(***************************************************************************)
\* The position as the store holds it
Stored == objs[positions]
\* No operation of the position is running or queued
Quiet == run.pc = "idle" /\ Len(queue) = 0

\* C1: a position with status ACTIVE or RISK_PAUSED has at most one order
\* live at the venue (posted, neither cancelled nor fully filled), at any
\* time.
C1_AtMostOneLiveOrder ==
    (positions # NULL /\ Stored.status \in {"ACTIVE", "RISK_PAUSED"})
        => Cardinality(LiveOrders) <= 1

\* C2: the filled stake of a position never decreases, whatever order the
\* successive fill events refer to.
C2_FilledStakeMonotone ==
    [][ (positions # NULL /\ positions' # NULL)
            => objs'[positions'].fillAmount >= Stored.fillAmount ]_vars

\* C4: once the close of a position has completed, the operations that
\* were queued behind it never execute: no order is posted, no order is
\* cancelled and the position record is not changed.
C4_NothingRunsAfterClose ==
    [][ positions = NULL => (objs' = objs /\ venue' = venue) ]_vars

\* C4, the case: the position is closed, the operations queued behind the
\* close have run, and an order is live at the venue.
C4_LiveOrderAfterClose ==
    positions = NULL /\ Quiet /\ LiveOrders # {}

\* C5: once the status of a position is COMPLETED no later event changes
\* it, and no further order is posted for the position.
C5_CompletedIsTerminal ==
    [][ (positions # NULL /\ Stored.status = "COMPLETED")
            => (objs'[positions].status = "COMPLETED" /\ Len(venue') = Len(venue)) ]_vars

\* C6: a fill event completes the position exactly when it brings the
\* filled stake to at least 99% (POSITION.FILL_COMPLETION_THRESHOLD) of
\* maxFillAmount: at or above that the status becomes COMPLETED, below it
\* the fill does not make the position COMPLETED.
C6_CompletesAtThreshold ==
    [][ (run.pc = "start" /\ Head(queue).kind = "fill")
            => LET before == objs[Head(queue).obj]
                   after == objs'[Head(queue).obj]
                   reached == after.fillAmount * 100 >=
                                  POSITION_FILL_COMPLETION_THRESHOLD * after.maxFillAmount
               IN  /\ reached => after.status = "COMPLETED"
                   /\ (~reached /\ before.status # "COMPLETED")
                          => after.status # "COMPLETED" ]_vars

\* C8: while the risk thresholds are breached, and once the operation that
\* handles the breach has run, the position is RISK_PAUSED and none of its
\* orders is live at the venue.
C8_NoLiveOrderWhileBreached ==
    (positions # NULL /\ riskFlag /\ Quiet /\ Stored.status \in {"ACTIVE", "RISK_PAUSED"})
        => (LiveOrders = {} /\ Stored.status = "RISK_PAUSED")

\* C9: a fill reported for an order the position cancelled less than
\* RECENT_ORDER_TRACKING_TIME ago is still credited to the position: as
\* long as such an order has more filled at the venue than the position
\* has recorded, its fill report is routed to the position.  And once the
\* position's operations have run, its live order has stake
\* maxFillAmount - fillAmount.
C9_LateFillCredited ==
    positions # NULL =>
        /\ \A h \in locallyCancelled :
               toNominalAmount(venue[h].fillAmount) > Stored.fillAmount
                   => FillHandlerFinds(h)
        /\ (Quiet /\ Stored.activeOrderHash \in LiveOrders)
              => venue[Stored.activeOrderHash].totalBetSize
                     = parseStake(Stored.maxFillAmount - Stored.fillAmount)

\* C10: once the shutdown has completed (the orders cancelled, then the
\* transport closed), no order is live at the venue.
C10_NoLiveOrderAfterShutdown ==
    cli = "s_done" => LiveOrders = {}


\* C3: the operations enqueued for a position run one at a time and start
\* in the order they were enqueued, each after every earlier one of the
\* position has finished; an operation in flight for one position never
\* holds back an operation of another position: an operation waits only
\* while an earlier operation of its own position runs or its timer is
\* pending.
C3_QueueDiscipline ==
    \A p \in QueuePositions :
        /\ Cardinality(executing[p]) <= 1
        /\ \A i \in 1..Len(startLog[p]) : startLog[p][i] = i
        /\ \A op \in executing[p] : op = Len(startLog[p])
        /\ Len(startLog[p]) < enqueued[p] => (executing[p] # {} \/ timers[p] > 0)

\* C3, the case: operations of both positions are in flight together, the
\* one of position 1 being its second, with a third waiting behind it.
C3_BothPositionsInFlight ==
    /\ executing[1] = {2}
    /\ executing[2] # {}
    /\ Len(operationQueues[1]) = 2

\* C7: every order handed to the venue has odds that are an exact multiple
\* of the ladder step, 0.25% of the wire unit, whatever odds postMakerOrder
\* was called with.
C7_TransmittedOnLadder ==
    \A i \in 1..Len(transmitted) :
        transmitted[i].percentageOdds % (ODDS_UNIT \div 400) = 0

\* C7, the case: postMakerOrder was called with odds off the ladder and an
\* order went out.
C7_OffLadderCallTransmitted ==
    \E i \in 1..Len(transmitted) :
        /\ ~checkOddsLadderValid(parseOdds(transmitted[i].asked))
        /\ transmitted[i].percentageOdds # parseOdds(transmitted[i].asked)


\* A market data operation is about to run on the stored position, and its
\* data breach no threshold and carry best taker odds
MarketDataWithinThresholds ==
    /\ positions # NULL
    /\ run.pc = "start" /\ Head(queue).kind = "md"
    /\ Head(queue).obj = positions
    /\ Head(queue).md.bestTakerOdds # NULL
    /\ ~riskFlag
    /\ ~checkRiskThresholds([Stored EXCEPT !.currentVig = Head(queue).md.vig,
                                           !.outcome1 = Head(queue).md.outcome1,
                                           !.outcome2 = Head(queue).md.outcome2])

\* C12: a position whose last post failed after all retries is left with
\* orderStatus ERROR, no active order and status ACTIVE, and the next
\* market data processed for it (no threshold breached, best taker odds
\* present) goes on to post a new order.
C12_NextMarketDataRetriesPost ==
    [][ ( /\ MarketDataWithinThresholds
          /\ Stored.orderStatus = "ERROR"
          /\ Stored.activeOrderHash = NULL
          /\ Stored.status = "ACTIVE" )
            => run'.pc = "u_post" ]_vars

\* C13: when a market data operation of an ACTIVE position posts its
\* replacement order, the order that was active is no longer live and the
\* new order is the position's only live order, at the best taker odds of
\* the event less the premium, rounded to the ladder.
C13_RepostReplacesActiveOrder ==
    [][ ( /\ positions # NULL
          /\ Stored.status = "ACTIVE"
          /\ run.pc = "u_post" /\ Head(queue).kind = "md"
          /\ Len(venue') = Len(venue) + 1 )
            => /\ LiveOrders' = {Len(venue')}
               /\ venue'[Len(venue')].percentageOdds =
                      parseOdds(roundToNearestStep(
                          applyPremium(Head(queue).md.bestTakerOdds, Stored.premium))) ]_vars

\* C15: every order posted for a position has the stake maxFillAmount -
\* fillAmount of the position as the store holds it when the order is
\* posted, which is positive.
C15_StakeIsRemainder ==
    [][ (positions # NULL /\ Len(venue') = Len(venue) + 1)
            => /\ Stored.maxFillAmount - Stored.fillAmount > 0
               /\ venue'[Len(venue')].totalBetSize =
                      parseStake(Stored.maxFillAmount - Stored.fillAmount) ]_vars

\* C20: postMakerOrder makes at most MAX_RETRY_COUNT attempts, and it goes
\* round its retry loop only after an error of the transport: once the
\* venue has rejected the order the call has returned, after that one
\* attempt.
C20_RejectionIsNotRetried ==
    /\ gateway.retryCount <= MAX_RETRY_COUNT
    /\ gateway.lastError = "rejected" => (gateway.pc = "idle" /\ gateway.retryCount = 1)

\* C11: whatever snapshots and batches of updates the monitor has handled,
\* the mirror of the market holds no order whose maker is the bot's own
\* address, so the metrics computed from it never count an own order.
C11_MirrorExcludesOwnOrders ==
    \A o \in orderbooks.orders : maker(o) # ADDRESSES_MAKER

\* C11, the case: a snapshot that held an order of the bot has been turned
\* into a mirror that holds an order.
C11_SnapshotHeldOwnOrder ==
    /\ lastUpdate.kind = "snapshot"
    /\ \E o \in lastUpdate.input : maker(o) = ADDRESSES_MAKER
    /\ orderbooks.orders # {}

\* C16: a market is subscribed through the push channel only when the
\* connection could be established; when it could not, at start-up or at
\* subscribe time, the subscription polls.
C16_FallsBackToPolling ==
    subscriptions = "channel" => realtime = "connected"

\* C17: in polling mode the mirror holds, after a poll has been handled,
\* exactly the orders of that poll that are not the bot's own.
C17_PollReplacesMirror ==
    lastUpdate.kind = "poll"
        => orderbooks.orders = { o \in lastUpdate.input : maker(o) # ADDRESSES_MAKER }

\* C18: a batch of updates that changes the mirror brings market data to
\* every position attached to the market, and a fill of a position's
\* active order is brought to that position.
C18_EveryAttachedPositionNotified ==
    lastUpdate.kind \in {"push", "poll"}
        => /\ lastUpdate.changed => lastUpdate.attached \subseteq lastUpdate.notified
           /\ lastUpdate.ownFilled \subseteq lastUpdate.fills

\* C19: while a position is attached to the market, the market stays
\* subscribed: closing another position of the market does not unsubscribe
\* it.
C19_SubscribedWhileAttached ==
    Attached # {} => (subscriptions # "none" \/ intervals > 0)

\* The market data the store holds for the position
StoredMarketData ==
    [ bestTakerOdds |-> Stored.bestTakerOdds, vig |-> Stored.currentVig,
      outcome1 |-> Stored.outcome1, outcome2 |-> Stored.outcome2 ]

\* C14 (S1): once a position with the settings of S1 has been created from
\* the snapshot of S1 (market monitoring initialised, first market data
\* handled, postInitialOrder returned without an error), exactly one order
\* has been posted, at 36% for 50 USDC, and it is live.
C14_S1PostsOneOrder ==
    ( /\ cli = "idle" /\ Quiet /\ delivered = 0
      /\ positions # NULL
      /\ StoredMarketData = MarketDataOf(processOrders(S1Snapshot))
      /\ Stored.status # "ERROR" )
        => /\ Len(venue) = 1
           /\ venue[1].live
           /\ venue[1].percentageOdds = parseOdds(360000)
           /\ venue[1].totalBetSize = parseStake(50)


\* C21: when the cancel at the start of a repost cancelled nothing because
\* the order had been filled, the fill of that order is applied to the
\* position before the stake of the replacement is computed: a replacement
\* that is posted is for no more than maxFillAmount minus that fill.
C21_FillAppliedBeforeRepost ==
    [][ ( /\ run.pc = "u_wait"
          /\ venue[run.hash].fillAmount > 0
          /\ run'.pc = "u_post" )
            => run'.stake <= objs[run.tgt].maxFillAmount
                               - toNominalAmount(venue[run.hash].fillAmount) ]_vars


\* C25: an operation that a market data event started never goes on to
\* postMakerOrder while the best taker odds of the position are null: no
\* order is posted at odds derived from a missing price.
C25_NoPostWithoutPrice ==
    run.pc = "u_post" => objs[run.tgt].bestTakerOdds # NULL

\* C26: the odds handed to postMakerOrder, computed from best taker odds
\* that exist, are strictly between 0 and 100%: a premium-applied, rounded
\* price of 0 or of 100% and more is not posted.
C26_PostedOddsInRange ==
    (run.pc \in {"u_post", "i_post"} /\ objs[run.tgt].bestTakerOdds # NULL)
        => (run.odds > 0 /\ run.odds < OddsScale)

\* C27: updateOrderForPosition starts a cancel or a post for the position
\* only when MIN_ORDER_UPDATE_INTERVAL has passed since the position's last
\* cancel or post returned.
C27_OrderCallsPaced ==
    [][ (run.pc = "start" /\ run'.pc \in {"u_cancel", "u_post"}) => ~orderCallRecent ]_vars

\* The maker odds wanted for the position on market data m, on the wire
DesiredMakerOdds(o, m) ==
    parseOdds(roundToNearestStep(applyPremium(m.bestTakerOdds, o.premium)))

\* C28: a market data event within the thresholds, for a position whose
\* active order is live at the maker odds the event asks for, starts
\* neither a cancel nor a post and leaves activeOrderHash and orderStatus
\* as they are.
C28_SameQuoteLeavesOrder ==
    [][ ( /\ run.pc = "start" /\ Head(queue).kind = "md"
          /\ ~riskFlag
          /\ Head(queue).md.bestTakerOdds # NULL
          /\ ~checkRiskThresholds([objs[Head(queue).obj] EXCEPT
                                     !.currentVig = Head(queue).md.vig,
                                     !.outcome1 = Head(queue).md.outcome1,
                                     !.outcome2 = Head(queue).md.outcome2])
          /\ objs[Head(queue).obj].activeOrderHash \in LiveOrders
          /\ venue[objs[Head(queue).obj].activeOrderHash].percentageOdds
                 = DesiredMakerOdds(objs[Head(queue).obj], Head(queue).md) )
            => /\ run'.pc = "timer"
               /\ objs'[Head(queue).obj].activeOrderHash = objs[Head(queue).obj].activeOrderHash
               /\ objs'[Head(queue).obj].orderStatus = objs[Head(queue).obj].orderStatus ]_vars


\* C22: an update of an order whose updateTime is not later than that of
\* the update last handled for the order leaves the orders of the mirror
\* as they are.
C22_StaleUpdateDropped ==
    [][ (feed'.handled = feed.handled + 1 /\ feed'.kind = "delta" /\ feed'.stale)
            => mirror' = mirror ]_vars

\* C23: no order hash occurs twice among the orders of the mirror, in one
\* outcome's array or across the two.
C23_OrderKeptOnce ==
    \A i, j \in 1..(Len(mirror[1]) + Len(mirror[2])) :
        (mirror[1] \o mirror[2])[i].orderHash = (mirror[1] \o mirror[2])[j].orderHash
            => i = j

\* An ACTIVE update was handled for each of two orders of one outcome that
\* the mirror held already
C23_KnownOrdersUpdated ==
    feed.kind = "replay" /\ Len(mirror[1]) = 2

\* C24: the orders of a snapshot handled again as ACTIVE updates, right
\* after the snapshot, leave the orders of the mirror and the metrics as
\* the snapshot left them.
C24_ReplayChangesNothing ==
    [][ (feed.fresh /\ feed'.kind = "replay") => (mirror' = mirror /\ metrics' = metrics) ]_vars

\* A snapshot with a partly filled order of another maker and the bot's own
\* order was handled again as ACTIVE updates
C24_FilledSnapshotReplayed ==
    /\ feed.kind = "replay" /\ feed.own
    /\ \E o \in Kept(mirror) : o.fillAmount > 0

\* C29: the vig of the metrics is computed from the best taker odds taken
\* over the orders that leave at least minBetSizeVig, and is null unless
\* both outcomes have such an order.
C29_VigUsesMinBetSizeVig ==
    metrics.vig = vigOf(bestTakerOddsIn(mirror, 1, MirrorPosition.minBetSizeVig),
                        bestTakerOddsIn(mirror, 2, MirrorPosition.minBetSizeVig))

\* The taker capacity the orders of an array leave, in token units
RECURSIVE TakerCapacity(_)
TakerCapacity(bucket) ==
    IF bucket = << >> THEN 0
    ELSE calculateRemainingTakerSpace(totalBetSize(Head(bucket).orderHash),
                                      Head(bucket).fillAmount,
                                      percentageOdds(Head(bucket).orderHash))
           + TakerCapacity(Tail(bucket))

\* C30: the liquidity of an outcome is the sum of the remaining taker
\* capacity of the orders whose maker bets on the other outcome.
C30_LiquidityIsTakerCapacity ==
    \A side \in 1..2 : parseStake(metrics.liquidity[side]) = TakerCapacity(mirror[3 - side])


(***************************************************************************)
(* closePosition: what a close leaves                                      *)
(***************************************************************************)
\* A step of the operation closePosition enqueued
CloseStep == Len(queue) > 0 /\ Head(queue).kind = "close" /\ run.pc \in {"start", "c_cancel"}

\* The close operation returns true: it deleted the position from the map
CloseSucceeds == CloseStep /\ run'.pc = "timer" /\ positions' = NULL

\* The record the close works on: closed with its order cancelled and
\* tracked, or kept as it was (this much holds in every behaviour)
CloseOfRecord ==
    LET k == Head(queue).obj
        h == objs[k].activeOrderHash
    IN  /\ CloseSucceeds =>
             /\ positions = k
             /\ objs'[k].status = "CLOSED" /\ objs'[k].activeOrderHash = NULL
             /\ h # NULL => (~venue'[h].live /\ h \in recentlyCancelledOrders')
        /\ (CloseStep /\ ~CloseSucceeds) =>
             /\ positions' = positions /\ positions = k
             /\ objs'[k].activeOrderHash = h
             /\ objs'[k].status = objs[k].status
             /\ objs'[k].orderStatus = objs[k].orderStatus

\* C31: when closePosition reports success the active order of the position
\* is cancelled at the venue (the position has no live order left) and
\* tracked for late fills, the status is CLOSED and the position is out of
\* the store; when the cancel fails the position stays in the store with
\* its active order and its status as they were.
C31_CloseAllOrNothing ==
    [][ CloseOfRecord /\ (CloseSucceeds => LiveOrders' = {}) ]_vars

\* closePosition has just reported success and an order of the position is
\* live at the venue
C31_LiveOrderOutlivesClose ==
    /\ positions = NULL /\ run.pc = "timer" /\ Head(queue).kind = "close"
    /\ objs[Head(queue).obj].status = "CLOSED"
    /\ LiveOrders # {}


\* C32: the batches of a market are applied in the order they were
\* received: no update of an earlier batch is applied to the mirror after
\* an update of a later batch.
C32_BatchesAppliedInOrder ==
    \A i \in 1..Len(applyLog) : \A j \in i..Len(applyLog) : applyLog[i] <= applyLog[j]

\* Both calls have returned; the second message removed order 1, the first
\* one reported it ACTIVE after a fill of the bot's own order, and the
\* mirror holds order 1
C32_RemovedOrderIsBack ==
    /\ Len(handlers) = 2
    /\ \A b \in 1..2 : handlers[b].pc = "returned"
    /\ handlers[1].updates = << BatchUpdate(OrderOfPosition(1), "ACTIVE",
                                            FillOf(OrderOfPosition(1), TRUE), "ok"),
                                BatchUpdate(1, "ACTIVE", 0, "ok") >>
    /\ handlers[2].updates = << BatchUpdate(1, "INACTIVE", 0, "ok") >>
    /\ \E o \in Kept(mirror) : o.orderHash = 1

\* C35: a malformed update (no array of ten fields, a required field
\* missing, a fill amount or a stake that is no number) is dropped: it
\* leaves the mirror as it was and the loop goes on to the next update of
\* the batch, so that the other updates are applied and the market data is
\* sent.
C35_MalformedUpdateDropped ==
    feed.kind # "none" =>
        \A update \in Malformed :
            /\ handleOne(mirror, update).mirror = mirror
            /\ handleOne(mirror, update).stop = "next"

\* A call has ended in its catch before the last update of its batch: the
\* update after the malformed one was not looked at, no market data sent
C35_BatchAbandoned ==
    \E b \in 1..Len(handlers) :
        /\ handlers[b].pc = "caught"
        /\ handlers[b].i <= Len(handlers[b].updates)
        /\ handlers[b].updates[handlers[b].i].form = "ok"
        /\ b \notin events

\* After a call ended in its catch the mirror holds an order whose fill
\* amount is no number
C35_TextInMirror ==
    /\ \E b \in 1..Len(handlers) : handlers[b].pc = "caught"
    /\ \E o \in Kept(mirror) : o.fillAmount = NotANumber


\* C33: the subscription of the market is open before the snapshot is
\* fetched, so that every change of the venue's order book after the
\* snapshot reaches the callback: none falls between the snapshot and the
\* subscription.
C33_SubscribedBeforeSnapshot ==
    [][ /\ \A p \in QueuePositions :
              (stage[p] = "none" /\ stage'[p] = "book") => subscriptions # "none"
        /\ (orderbooks.present /\ book' # book /\ realtime = "connected"
              /\ \E p \in QueuePositions : stage[p] = "book")
              => lastUpdate'.kind = "push" ]_vars

\* The channel is subscribed and connected, nothing was handled since a
\* snapshot that held orders, and the mirror is not the venue's order book:
\* the change came between the snapshot and the subscription
C33_ChangeFellInGap ==
    /\ subscriptions = "channel" /\ realtime = "connected"
    /\ \E p \in QueuePositions : stage[p] = "attached"
    /\ lastUpdate.kind = "snapshot" /\ lastUpdate.input # {}
    /\ orderbooks.orders # processOrders(book)


\* The operation of an operator edit returns
EditEnds == Len(queue) > 0 /\ Head(queue).kind = "edit" /\ run.pc # "timer" /\ run'.pc = "timer"

\* The position was ACTIVE when the edit's operation started: the operation
\* is at its start, or went past the test of checkAndUpdateOrder
EditOfActive == run.pc = "start" => objs[Head(queue).obj].status = "ACTIVE"

\* The venue answered the call the operation returns from: no cancel of a
\* live order and no post was given up after the last attempt
VenueAnswered ==
    /\ (run.pc \in {"u_cancel", "b_cancel"} /\ run.hash \in LiveOrders) => venue' # venue
    /\ run.pc = "u_post" => venue' # venue

\* C34: when an operator edit of an ACTIVE position completes (the venue
\* answering its calls), the order
\* is reconciled with the new settings: not breached under the new
\* bounds, the live order has the odds quantize(best * (1 - newPremium))
\* and the stake newMaxStake - filledStake; breached, there is no live
\* order and the status is RISK_PAUSED.
C34_EditReconcilesOrder ==
    [][ (EditEnds /\ EditOfActive /\ VenueAnswered) =>
          LET o == objs'[positions']
          IN  IF checkRiskThresholds(o)
              THEN LiveOrders' = {} /\ o.status = "RISK_PAUSED"
              ELSE /\ o.activeOrderHash # NULL
                   /\ LiveOrders' = {o.activeOrderHash}
                   /\ venue'[o.activeOrderHash].percentageOdds =
                          parseOdds(roundToNearestStep(applyPremium(o.bestTakerOdds, o.premium)))
                   /\ venue'[o.activeOrderHash].totalBetSize =
                          parseStake(o.maxFillAmount - o.fillAmount) ]_vars

\* An edit of an ACTIVE position without a live order has completed, the
\* market data are within the new bounds, and no order is live
C34_EditLeftNoOrder ==
    /\ run.pc = "timer" /\ Head(queue).kind = "edit"
    /\ objs[Head(queue).obj].status = "ACTIVE"
    /\ objs[Head(queue).obj].activeOrderHash = NULL
    /\ positions # NULL /\ Stored.status = "ACTIVE" /\ ~checkRiskThresholds(Stored)
    /\ Stored.bestTakerOdds # NULL
    /\ LiveOrders = {}


\* What takers have filled of the orders of the position, and what is
\* left open of its live orders, at the venue
RECURSIVE SumOver(_, _)
SumOver(hashes, amount) ==
    IF hashes = {} THEN 0
    ELSE LET h == CHOOSE x \in hashes : TRUE
         IN  amount[h] + SumOver(hashes \ {h}, amount)

FilledAtVenue == SumOver(Orders, [h \in Orders |-> venue[h].fillAmount])
OpenAtVenue == SumOver(LiveOrders, [h \in Orders |-> venue[h].totalBetSize - venue[h].fillAmount])

\* C36: the stake filled across all the orders of a position plus the
\* unfilled stake of its live orders never exceeds maxStake.
C36_ExposureWithinMaxStake ==
    positions # NULL => FilledAtVenue + OpenAtVenue <= parseStake(Stored.maxFillAmount)

\* Takers have filled more than maxStake of the position's orders
C36_FilledBeyondMaxStake ==
    positions # NULL /\ FilledAtVenue > parseStake(Stored.maxFillAmount)


\* C37: every operation reads and writes the record the store holds: an
\* operation enqueued before an edit does not change the detached object
\* the edit left behind.
C37_OnlyStoredRecordWritten ==
    [][ positions # NULL =>
          \A k \in 1..Len(objs) : objs'[k] # objs[k] => k = positions ]_vars

\* The store holds the copy an edit made, and an operation enqueued before
\* the edit has posted an order it recorded on the detached object: the
\* stored record does not know the live order
C37_DetachedCopyHoldsOrder ==
    /\ positions # NULL /\ positions > 1
    /\ \E k \in 1..(positions - 1) :
          /\ objs[k].activeOrderHash # NULL
          /\ objs[k].activeOrderHash \in LiveOrders
          /\ Stored.activeOrderHash # objs[k].activeOrderHash


\* cancelOrder, called at the start of a repost, throws after its last
\* attempt: the order is at the venue as it was
RepostCancelGivenUp ==
    /\ run.pc = "u_cancel" /\ LastAttempt
    /\ run'.pc \notin {"u_cancel", "u_wait"}
    /\ venue'[run.hash].live = venue[run.hash].live

\* C38: when the cancel at the start of a repost fails after all its
\* retries, no replacement is posted (the operation returns) and
\* activeOrderHash, orderStatus and lastOrderOdds of the position are as
\* they were.
C38_FailedCancelKeepsOrder ==
    [][ RepostCancelGivenUp =>
          /\ run'.pc = "timer" /\ venue' = venue
          /\ \A k \in 1..Len(objs) :
                /\ objs'[k].activeOrderHash = objs[k].activeOrderHash
                /\ objs'[k].orderStatus = objs[k].orderStatus
                /\ objs'[k].lastOrderOdds = objs[k].lastOrderOdds ]_vars

\* A market update's repost has returned, no threshold breached, and the
\* order it tracked for late fills is still the live, ACTIVE order of the
\* position, quoted for other odds than the market data now recorded: the
\* cancel was given up
C38_RepostGaveUp ==
    /\ run.pc = "timer" /\ Head(queue).kind = "md" /\ ~riskFlag
    /\ LET o == objs[Head(queue).obj]
       IN  /\ o.status = "ACTIVE" /\ o.orderStatus = "ACTIVE"
           /\ o.activeOrderHash # NULL
           /\ o.activeOrderHash \in LiveOrders \cap recentlyCancelledOrders
           /\ o.bestTakerOdds # o.lastOrderOdds


\* The event loop runs the timers that are due, and the operations that
\* were started terminate (they return or throw)
QueueFairness ==
    \A p \in QueuePositions :
        /\ WF_vars(TimerFires(p))
        /\ WF_vars(\E op \in 1..MaxOps : OperationSettles(p, op))

SpecQueueFair == SpecQueue /\ QueueFairness

\* C39: an operation that throws does not stall the queue of its position:
\* every operation enqueued is started in the end, the operations before
\* it terminating.  The operations of a position are started in the order
\* of the queue, so this is to say that the queue does not stall: again
\* and again either no enqueued operation is waiting to be started or one
\* is started.
C39_EveryOperationStarted ==
    \A p \in QueuePositions :
        \/ []<>(Len(startLog[p]) = enqueued[p])
        \/ []<><<Len(startLog'[p]) > Len(startLog[p])>>_vars

\* An operation of a position threw, and the next one is running
C39_StartedAfterThrow ==
    \E p \in QueuePositions :
        /\ rejected = p
        /\ executing[p] # {} /\ Len(startLog[p]) >= 2


\* C40: whenever an operation is suspended or has finished, the position's
\* orderStatus is ACTIVE exactly when its activeOrderHash is set - after
\* failed posts and cancels, closes and the batch cancel of the shutdown
\* as well.
C40_ActiveIffOrderHash ==
    \A k \in 1..Len(objs) :
        objs[k].orderStatus = "ACTIVE" <=> objs[k].activeOrderHash # NULL

\* A post has failed after its retries: the operation has returned, the
\* position has no order and its orderStatus is ERROR
C40_PostFailed ==
    /\ run.pc = "timer" /\ positions # NULL
    /\ Stored.orderStatus = "ERROR" /\ Stored.activeOrderHash = NULL

\* The batch cancel of the shutdown has cancelled the order of the
\* position while a repost of the position was waiting for its own cancel
C40_ShutdownCancelled ==
    /\ positions # NULL /\ Stored.orderStatus = "CANCELLED"
    /\ run.pc = "u_cancel" /\ run.hash \notin LiveOrders

=============================================================================
